---- MODULE Spec2Model ----
(***************************************************************************)
(* Model of the SQL repair and retry pipeline of the ai-chatbot backend:   *)
(* the retry loop of DynamicSqlExecutor.executeSql, and the text fixers    *)
(* it and the validator call.  SQL text is a sequence of one-character     *)
(* strings; the regular expressions of the source are kept as data and     *)
(* run by a backtracking matcher with JavaScript's priority order.         *)
(***************************************************************************)
EXTENDS Integers, Sequences, FiniteSets, TLC

VARIABLES
  pc,             \* executeSql: where the call stands
  maxRetries,     \* executeSql: opts.maxRetries
  throwOnFailure, \* executeSql: opts.throwOnFailure
  currentQuery,   \* executeSql: let currentQuery
  attempts,       \* executeSql: let attempts
  error,          \* executeSql: let error (Null until an attempt fails)
  outcome,        \* executeSql: how the returned promise settled
  history,        \* executeSql: the executions and repairs of the call, in order
  input,          \* a text fixer under test: its argument
  output,         \* a text fixer under test: its return value
  stage,          \* a text fixer under test: "in" before the call, "out" after
  dbType,         \* database.ts: dbConfig.type
  calls,          \* database.ts: the calls of the exported functions, by number
  pools,          \* database.ts: the pools that sql.connect has given, in order
  schemaCache,    \* database.ts: const schemaCache
  completions,    \* database.ts: the schema queries that resolved, in order
  candidate,      \* verifySQLQuery: its argument
  verifyPc,       \* verifySQLQuery: where the call stands
  passesRun,      \* verifySQLQuery: the passes over the text that have run, in order
  verification,   \* verifySQLQuery: how the returned promise settled
  dialog,         \* ExportDialogComponent: the fields of the component
  requests        \* ExportDialogComponent: the export requests subscribed to, in order

vars == <<pc, maxRetries, throwOnFailure, currentQuery, attempts, error,
          outcome, history, input, output, stage,
          dbType, calls, pools, schemaCache, completions,
          candidate, verifyPc, passesRun, verification,
          dialog, requests>>

dbVars == <<dbType, calls, pools, schemaCache, completions>>

verifyVars == <<candidate, verifyPc, passesRun, verification>>

dialogVars == <<dialog, requests>>

serviceVars == <<dbType, calls, pools, schemaCache, completions,
                 candidate, verifyPc, passesRun, verification,
                 dialog, requests>>

execVars == <<pc, maxRetries, throwOnFailure, currentQuery, attempts, error,
              outcome, history>>

fixerVars == <<input, output, stage>>

Null == [null |-> TRUE]

\* no call of database.ts has been made
DatabaseIdle ==
  /\ dbType = <<"m", "s", "s", "q", "l">>
  /\ calls = <<>>
  /\ pools = <<>>
  /\ schemaCache = <<>>
  /\ completions = <<>>

\* no text fixer is under test
FixerIdle ==
  /\ input = <<>>
  /\ output = <<>>
  /\ stage = "none"

\* no call of verifySQLQuery has been made
VerifyIdle ==
  /\ candidate = Null
  /\ verifyPc = "idle"
  /\ passesRun = <<>>
  /\ verification = Null

\* the fields of ExportDialogComponent as its declaration initialises them
NewDialog ==
  [selectedFormat |-> "excel", filename |-> <<>>, isExporting |-> FALSE,
   exportComplete |-> FALSE, exportError |-> "", exportStatus |-> "",
   exportResult |-> Null]

\* no export dialog is open
DialogIdle ==
  /\ dialog = NewDialog
  /\ requests = <<>>

ServicesIdle == DatabaseIdle /\ VerifyIdle /\ DialogIdle

---------------------------------------------------------------------------
(* Text.                                                                   *)

\* s.substring(a, b) with 1-based a and exclusive b
Sub(s, a, b) == SubSeq(s, a, b - 1)

LowerLetters == <<"a","b","c","d","e","f","g","h","i","j","k","l","m",
                  "n","o","p","q","r","s","t","u","v","w","x","y","z">>

UpperLetters == <<"A","B","C","D","E","F","G","H","I","J","K","L","M",
                  "N","O","P","Q","R","S","T","U","V","W","X","Y","Z">>

LowerCh == {LowerLetters[i] : i \in 1..26}

UpperCh == {UpperLetters[i] : i \in 1..26}

DigitCh == {"0","1","2","3","4","5","6","7","8","9"}

\* \w
WordCh == LowerCh \cup UpperCh \cup DigitCh \cup {"_"}

\* \s
SpaceCh == {" ", "\n", "\t", "\r"}

\* the character U+0060, which a TLA+ string cannot hold
Backtick == "backtick"

\* c.toUpperCase() for one character
Up(c) == IF c \in LowerCh
         THEN UpperLetters[CHOOSE i \in 1..26 : LowerLetters[i] = c]
         ELSE c

\* c.toLowerCase() for one character
Lo(c) == IF c \in UpperCh
         THEN LowerLetters[CHOOSE i \in 1..26 : UpperLetters[i] = c]
         ELSE c

\* The characters of a word; the token that stands for the backtick is one
\* character.
Spell(t) == IF t = Backtick THEN <<t>> ELSE [i \in 1..Len(t) |-> SubSeq(t, i, i)]

\* The text made of the given tokens, in order
Str(ts) ==
  LET f[k \in 0..Len(ts)] == IF k = 0 THEN <<>> ELSE f[k - 1] \o Spell(ts[k])
  IN f[Len(ts)]

\* s.toUpperCase()
ToUpper(s) == [i \in 1..Len(s) |-> Up(s[i])]

\* s.indexOf(t, from) as a 1-based position, 0 when t does not occur
IndexOfFrom(s, t, from) ==
  LET hits == {p \in from..(Len(s) - Len(t) + 1) : Sub(s, p, p + Len(t)) = t}
  IN IF hits = {} THEN 0 ELSE CHOOSE p \in hits : \A q \in hits : p <= q

IndexOf(s, t) == IndexOfFrom(s, t, 1)

\* s.lastIndexOf(t) as a 1-based position, 0 when t does not occur
LastIndexOf(s, t) ==
  LET hits == {p \in 1..(Len(s) - Len(t) + 1) : Sub(s, p, p + Len(t)) = t}
  IN IF hits = {} THEN 0 ELSE CHOOSE p \in hits : \A q \in hits : p >= q

\* s.includes(t)
Includes(s, t) == IndexOf(s, t) # 0

\* s.trim()
Trim(s) ==
  LET keep == {p \in 1..Len(s) : s[p] \notin SpaceCh}
  IN IF keep = {} THEN <<>>
     ELSE Sub(s, CHOOSE p \in keep : \A q \in keep : p <= q,
                 (CHOOSE p \in keep : \A q \in keep : p >= q) + 1)

---------------------------------------------------------------------------
(* Regular expressions.  A pattern is a sequence of nodes; M runs it with  *)
(* the backtracking order of the JavaScript engine: alternatives left to   *)
(* right, greedy quantifiers longest first, lazy ones shortest first.      *)

Ch(S) == [k |-> "ch", s |-> S]

NCh(S) == [k |-> "nch", s |-> S]

\* [\s\S], or . under the s flag
AnyCh == [k |-> "any"]

\* . without the s flag
Dot == NCh({"\n", "\r"})

\* whether character c is of the class the node cls stands for
InClass(c, cls) ==
  CASE cls.k = "ch" -> c \in cls.s
    [] cls.k = "nch" -> c \notin cls.s
    [] cls.k = "any" -> TRUE

IsClass(n) == n.k \in {"ch", "nch", "any"}

\* a capturing group, numbered id; id 0 does not capture
Grp(id, r) == [k |-> "grp", id |-> id, r |-> r]

Alt(a) == [k |-> "alt", a |-> a]

Rep(r, lo, hi, lazy) == [k |-> "rep", r |-> r, lo |-> lo, hi |-> hi, lazy |-> lazy]

Star(r) == Rep(r, 0, -1, FALSE)

Plus(r) == Rep(r, 1, -1, FALSE)

Opt(r) == Rep(r, 0, 1, FALSE)

LazyStar(r) == Rep(r, 0, -1, TRUE)

LazyPlus(r) == Rep(r, 1, -1, TRUE)

\* \b
Bnd == [k |-> "bnd"]

\* ^ without the m flag
Bol == [k |-> "bol"]

\* $ without the m flag
Eol == [k |-> "eol"]

\* (?!r)
NotAhead(r) == [k |-> "nla", r |-> r]

\* (?=r)
Ahead(r) == [k |-> "pla", r |-> r]

\* (?<!c) for one character class
NotBehind(S) == [k |-> "nlb", s |-> S]

\* the characters of s, each as written
Lit(s) == <<[k |-> "str", cs |-> [i \in 1..Len(s) |-> {s[i]}]]>>

\* the characters of s under the i flag
ILit(s) == <<[k |-> "str", cs |-> [i \in 1..Len(s) |-> {Lo(s[i]), Up(s[i])}]]>>

\* \s* and \s+
Ws0 == Star(<<Ch(SpaceCh)>>)

Ws1 == Plus(<<Ch(SpaceCh)>>)

\* \w+
Word1 == Plus(<<Ch(WordCh)>>)

MaxGroups == 12

NoMatch == [ok |-> FALSE]

NoCaps == [i \in 1..MaxGroups |-> <<0, 0>>]

IsWordAt(s, i) == i >= 1 /\ i <= Len(s) /\ s[i] \in WordCh

\* the least element of the set of numbers S, or d when S is empty
MinOr(S, d) == IF S = {} THEN d ELSE CHOOSE p \in S : \A q \in S : p <= q

\* x, at most hi when hi is a bound (hi >= 0)
AtMost(x, hi) == IF hi >= 0 /\ x > hi THEN hi ELSE x

\* how many characters from position i on are of class cls, at most hi (if hi >= 0)
RunLength(s, i, cls, hi) ==
  AtMost(MinOr({p \in i..Len(s) : ~InClass(s[p], cls)}, Len(s) + 1) - i, hi)

\* the result r if it is a match, and other if not: the order of backtracking
OrElse(r, other) == IF r.ok THEN r ELSE other

\* of results numbered by preference (j), the match with the least number
FirstOf(results) ==
  IF \E x \in results : x.r.ok
  THEN (CHOOSE x \in results : x.r.ok /\ \A y \in results : y.r.ok => x.j <= y.j).r
  ELSE NoMatch

\* the j-th length a quantified class with longest run tries
RunCandidate(n, longest, j) == IF n.lazy THEN n.lo + j - 1 ELSE longest - j + 1

\* whether the text s has the characters of the node n ("str") at position i
HasStr(n, s, i) ==
  /\ i + Len(n.cs) - 1 <= Len(s)
  /\ \A j \in 1..Len(n.cs) : s[i + j - 1] \in n.cs[j]

\* a quantified group as the node that counts its iterations
Loop(n) == [k |-> "loop", r |-> n.r, lo |-> n.lo, hi |-> n.hi, lazy |-> n.lazy,
            cnt |-> 0, at |-> 0]

\* the loop n has to iterate again / may not iterate again (its bound is
\* reached, or its last iteration, begun at n.at, was empty)
LoopMust(n) == n.cnt < n.lo

LoopDone(n, i) == ~LoopMust(n) /\ ((n.hi >= 0 /\ n.cnt >= n.hi) \/ (n.cnt > 0 /\ n.at = i))

\* the loop n may iterate again or stop
LoopMay(n, i) == ~LoopMust(n) /\ ~LoopDone(n, i)

\* the nodes of one more iteration of the loop n from position i, and the loop after it
Again(n, i) == n.r \o <<[n EXCEPT !.cnt = n.cnt + 1, !.at = i]>>

\* whether the quantified node n repeats one character class
IsRun(n) == n.k = "rep" /\ Len(n.r) = 1 /\ IsClass(n.r[1])

\* whether the node n is a group of nothing but one such repetition, as (\w+)
IsRunGroup(n) == n.k = "grp" /\ Len(n.r) = 1 /\ IsRun(n.r[1])

\* the pattern c, which begins with such a repetition or group, without the group
Ungrouped(c) == IF IsRunGroup(Head(c)) THEN Head(c).r \o Tail(c) ELSE c

\* the captures after the node n, if it is a capturing group, has matched from..to
CapsAfter(n, caps, from, to) ==
  IF n.k = "grp" /\ n.id # 0 THEN [caps EXCEPT ![n.id] = <<from, to>>] ELSE caps

\* a quantified single class, alone or as the whole of a group
IsRepeat(n) == IsRun(n) \/ IsRunGroup(n)

\* whether the quantified node n is (?:(?!x).)* for a class . and a pattern x:
\* a greedy repetition of one class that stops where x matches
IsTempered(n) ==
  /\ n.k = "rep" /\ ~n.lazy /\ n.lo = 0 /\ n.hi = -1
  /\ Len(n.r) = 2 /\ n.r[1].k = "nla" /\ IsClass(n.r[2])

\* any other quantified node, before its first iteration ("rep") or after
IsLoop(n) == n.k = "loop" \/ (n.k = "rep" /\ ~IsRun(n) /\ ~IsTempered(n))

\* a quantified node as the loop it is, a loop as itself
LoopOf(n) == IF n.k = "rep" THEN Loop(n) ELSE n

\* a condition every match of pattern c on s from position p meets: what c
\* begins with is at p.  Positions without it are not tried.
RECURSIVE CanStart(_, _, _)
CanStart(c, s, p) ==
  CASE Len(c) = 0 -> TRUE
    [] IsClass(Head(c)) -> p <= Len(s) /\ InClass(s[p], Head(c))
    [] Head(c).k = "str" -> HasStr(Head(c), s, p)
    [] Head(c).k = "grp" -> CanStart(Head(c).r \o Tail(c), s, p)
    [] Head(c).k = "end" -> CanStart(Tail(c), s, p)
    [] Head(c).k = "alt" ->
         \E j \in 1..Len(Head(c).a) : CanStart(Head(c).a[j] \o Tail(c), s, p)
    [] IsRun(Head(c)) /\ Head(c).lo >= 1 -> p <= Len(s) /\ InClass(s[p], Head(c).r[1])
    [] Head(c).k = "bnd" -> IsWordAt(s, p - 1) # IsWordAt(s, p) /\ CanStart(Tail(c), s, p)
    [] Head(c).k = "bol" -> p = 1 /\ CanStart(Tail(c), s, p)
    [] Head(c).k = "eol" -> p = Len(s) + 1
    [] Head(c).k = "nlb" -> ~(p > 1 /\ s[p - 1] \in Head(c).s) /\ CanStart(Tail(c), s, p)
    [] OTHER -> TRUE

\* the lengths (by number) of the run n, at most longest, after which rest can start
ViableOf(n, longest, rest, s, i) ==
  {j \in 1..(longest - n.lo + 1) : CanStart(rest, s, i + RunCandidate(n, longest, j))}

Viable(c, s, i) ==
  ViableOf(Head(c), RunLength(s, i, Head(c).r[1], Head(c).hi), Tail(c), s, i)

\* where the run Head(c) from i ends when it takes its j-th length
RunEnd(c, s, i, j) ==
  i + RunCandidate(Head(c), RunLength(s, i, Head(c).r[1], Head(c).hi), j)

\* the class that the quantified class n, alone or in its group, repeats
RepeatOf(n) == IF n.k = "grp" THEN n.r[1] ELSE n

\* whether whatever the node n matches begins with a character outside the class cls
StartsOutside(n, cls) ==
  CASE n.k = "ch" -> \A ch \in n.s : ~InClass(ch, cls)
    [] n.k = "str" -> Len(n.cs) > 0 /\ \A ch \in n.cs[1] : ~InClass(ch, cls)
    [] IsRepeat(n) /\ RepeatOf(n).lo >= 1 /\ RepeatOf(n).r[1].k = "ch" ->
         \A ch \in RepeatOf(n).r[1].s : ~InClass(ch, cls)
    [] n.k = "eol" -> TRUE
    [] OTHER -> FALSE

\* whether the q-th node of c can match in one way only: a character, an
\* assertion, the end of a group, or a greedy quantified class that what follows
\* cannot begin inside of (so that no length but the longest can lead to a match)
IsPlain(c, q) ==
  \/ IsClass(c[q])
  \/ c[q].k \in {"str", "end", "bnd", "bol", "eol", "nlb"}
  \/ /\ IsRepeat(c[q])
     /\ ~RepeatOf(c[q]).lazy
     /\ (q = Len(c) \/ StartsOutside(c[IF q = Len(c) THEN q ELSE q + 1], RepeatOf(c[q]).r[1]))

\* how many nodes c begins with that can match in one way only
PlainLength(c) == MinOr({q \in 1..Len(c) : ~IsPlain(c, q)}, Len(c) + 1) - 1

\* the match r (that ends at r.e) with such a node n after it
PlainStep(n, s, r) ==
  CASE IsClass(n) /\ r.e <= Len(s) /\ InClass(s[r.e], n) -> [r EXCEPT !.e = r.e + 1]
    [] n.k = "str" /\ HasStr(n, s, r.e) -> [r EXCEPT !.e = r.e + Len(n.cs)]
    [] n.k = "end" ->
         [r EXCEPT !.caps = IF n.id = 0 THEN r.caps
                            ELSE [r.caps EXCEPT ![n.id] = <<n.from, r.e>>]]
    [] IsRepeat(n) /\ RunLength(s, r.e, RepeatOf(n).r[1], RepeatOf(n).hi) >= RepeatOf(n).lo ->
         [r EXCEPT !.e = r.e + RunLength(s, r.e, RepeatOf(n).r[1], RepeatOf(n).hi),
                   !.caps = CapsAfter(n, r.caps, r.e,
                                      r.e + RunLength(s, r.e, RepeatOf(n).r[1], RepeatOf(n).hi))]
    [] n.k = "bnd" /\ IsWordAt(s, r.e - 1) # IsWordAt(s, r.e) -> r
    [] n.k = "bol" /\ r.e = 1 -> r
    [] n.k = "eol" /\ r.e = Len(s) + 1 -> r
    [] n.k = "nlb" /\ ~(r.e > 1 /\ s[r.e - 1] \in n.s) -> r
    [] OTHER -> NoMatch

\* the match r with the nodes from..to of c, each of one way only, after it
RECURSIVE PlainSteps(_, _, _, _, _)
PlainSteps(c, from, to, s, r) ==
  CASE ~r.ok -> NoMatch
    [] r.ok /\ from = to -> PlainStep(c[from], s, r)
    [] r.ok /\ from < to ->
         PlainSteps(c, (from + to) \div 2 + 1, to, s,
                    PlainSteps(c, from, (from + to) \div 2, s, r))

\* M(c, s, i, caps): the match of pattern c on s from position i that the
\* backtracking engine finds first, as [ok, e (the position after it), caps].
\* The nodes c begins with are matched and then the nodes after them.  A
\* quantified single class tries its lengths in preference order, an
\* alternation its branches in theirs; any other quantified group iterates.
RECURSIVE M(_, _, _, _)
\* the match of what follows the run (or the group of a run) Head(c), which ends at e
MAfterRun(c, s, i, caps, e) == M(Tail(c), s, e, CapsAfter(Head(c), caps, i, e))

\* how many characters from i on the repetition n of IsTempered can take: those
\* of its class before the first position where its pattern x matches
TemperedLength(n, s, i) ==
  MinOr({p \in i..Len(s) : ~InClass(s[p], n.r[2]) \/ M(n.r[1].r, s, p, NoCaps).ok},
        Len(s) + 1) - i

\* where such a repetition Head(c) from i ends when it takes its j-th length,
\* the longest first
TemperedEnd(c, s, i, j) == i + TemperedLength(Head(c), s, i) - j + 1

\* the lengths (by number) after which the rest of c can start
TemperedViable(c, s, i) ==
  {j \in 1..(TemperedLength(Head(c), s, i) + 1) : CanStart(Tail(c), s, TemperedEnd(c, s, i, j))}

\* the match of c after the match r
MAfter(c, s, r) == IF r.ok THEN M(c, s, r.e, r.caps) ELSE NoMatch

M(c, s, i, caps) ==
  CASE Len(c) = 0 -> [ok |-> TRUE, e |-> i, caps |-> caps]
    [] Len(c) > 0 /\ PlainLength(c) > 0 ->
         MAfter(SubSeq(c, PlainLength(c) + 1, Len(c)), s,
                PlainSteps(c, 1, PlainLength(c), s, [ok |-> TRUE, e |-> i, caps |-> caps]))
    [] Head(c).k = "grp" /\ ~IsRunGroup(Head(c)) ->
         M(Head(c).r \o <<[k |-> "end", id |-> Head(c).id, from |-> i]>> \o Tail(c),
           s, i, caps)
    [] Head(c).k = "alt" ->
         FirstOf({[j |-> j, r |-> M(Head(c).a[j] \o Tail(c), s, i, caps)] :
                    j \in 1..Len(Head(c).a)})
    [] IsRepeat(Head(c)) /\ Cardinality(Viable(Ungrouped(c), s, i)) = 1 ->
         MAfterRun(c, s, i, caps,
                   RunEnd(Ungrouped(c), s, i, CHOOSE j \in Viable(Ungrouped(c), s, i) : TRUE))
    [] IsRepeat(Head(c)) /\ Cardinality(Viable(Ungrouped(c), s, i)) > 1 ->
         FirstOf({[j |-> j, r |-> MAfterRun(c, s, i, caps, RunEnd(Ungrouped(c), s, i, j))] :
                    j \in Viable(Ungrouped(c), s, i)})
    [] IsTempered(Head(c)) ->
         FirstOf({[j |-> j, r |-> M(Tail(c), s, TemperedEnd(c, s, i, j), caps)] :
                    j \in TemperedViable(c, s, i)})
    [] IsLoop(Head(c)) /\ LoopMust(LoopOf(Head(c))) ->
         M(Again(LoopOf(Head(c)), i) \o Tail(c), s, i, caps)
    [] IsLoop(Head(c)) /\ LoopDone(LoopOf(Head(c)), i) ->
         M(Tail(c), s, i, caps)
    [] IsLoop(Head(c)) /\ LoopMay(LoopOf(Head(c)), i) /\ Head(c).lazy ->
         OrElse(M(Tail(c), s, i, caps), M(Again(LoopOf(Head(c)), i) \o Tail(c), s, i, caps))
    [] IsLoop(Head(c)) /\ LoopMay(LoopOf(Head(c)), i) /\ ~Head(c).lazy ->
         OrElse(M(Again(LoopOf(Head(c)), i) \o Tail(c), s, i, caps), M(Tail(c), s, i, caps))
    [] Head(c).k = "nla" /\ ~M(Head(c).r, s, i, caps).ok -> M(Tail(c), s, i, caps)
    [] Head(c).k = "pla" /\ M(Head(c).r, s, i, caps).ok -> M(Tail(c), s, i, caps)
    [] OTHER -> NoMatch

\* the result r of matching from position p, as exec reports a match
MatchFrom(p, r) ==
  IF r.ok THEN [ok |-> TRUE, b |-> p, e |-> r.e, caps |-> r.caps] ELSE NoMatch

\* the match of re on s that starts at position p
MatchAt(re, s, p) ==
  IF CanStart(re, s, p) THEN MatchFrom(p, M(re, s, p, NoCaps)) ELSE NoMatch

\* the first of four results, in their order, that is a match
FirstMatch(a, b, c, d) ==
  CASE a.ok -> a
    [] ~a.ok /\ b.ok -> b
    [] ~a.ok /\ ~b.ok /\ c.ok -> c
    [] OTHER -> d

\* the leftmost match of re on s that starts at one of the positions from..to,
\* looked for in the four quarters of from..to from left to right
RECURSIVE ExecBetween(_, _, _, _)
ExecBetween(re, s, from, to) ==
  CASE from > to -> NoMatch
    [] from = to -> MatchAt(re, s, from)
    [] OTHER -> FirstMatch(ExecBetween(re, s, from, from + (to - from) \div 4),
                           ExecBetween(re, s, from + (to - from) \div 4 + 1,
                                       from + (to - from) \div 2),
                           ExecBetween(re, s, from + (to - from) \div 2 + 1,
                                       from + (3 * (to - from)) \div 4),
                           ExecBetween(re, s, from + (3 * (to - from)) \div 4 + 1, to))

\* re.exec(s) with lastIndex = from - 1: the leftmost match at or after from
ExecFrom(re, s, from) == ExecBetween(re, s, from, Len(s) + 1)

\* s.match(re) / re.exec(s) without the g flag
Exec(re, s) == ExecFrom(re, s, 1)

\* re.test(s)
Test(re, s) == Exec(re, s).ok

\* where the search goes on after the match m: past it, or one further if it is empty
AfterMatch(m) == IF m.e = m.b THEN m.e + 1 ELSE m.e

\* every match of a g-flag pattern, left to right, as exec or replace meet them
RECURSIVE AllFrom(_, _, _)
RECURSIVE AllWith(_, _, _)
AllWith(re, s, m) == IF ~m.ok THEN <<>> ELSE <<m>> \o AllFrom(re, s, AfterMatch(m))

AllFrom(re, s, from) == AllWith(re, s, ExecFrom(re, s, from))

All(re, s) == AllFrom(re, s, 1)

\* the text of capture group g of match m on s ("" when the group took no part)
Cap(s, m, g) == Sub(s, m.caps[g][1], m.caps[g][2])

\* whether capture group g of match m took part in the match
HasCap(m, g) == m.caps[g][1] # 0

\* m[0]
Whole(s, m) == Sub(s, m.b, m.e)

\* the matches of a pattern without the g flag: the first one, if any
AllWithin(m) == IF m.ok THEN <<m>> ELSE <<>>

\* s with the k-th match of ms (in order, not overlapping) replaced by reps[k]
Splice(s, ms, reps) ==
  LET f[k \in 0..Len(ms)] ==
        IF k = 0 THEN <<>>
        ELSE f[k - 1] \o Sub(s, IF k = 1 THEN 1 ELSE ms[k - 1].e, ms[k].b) \o reps[k]
  IN f[Len(ms)] \o Sub(s, IF Len(ms) = 0 THEN 1 ELSE ms[Len(ms)].e, Len(s) + 1)

\* Replacement(by, s, m): what the second argument of a replace call, named by,
\* gives for the match m on s; defined with the functions that call replace
RECURSIVE Replacement(_, _, _)

\* s with each of the matches ms replaced as by says
ReplaceMatches(s, ms, by) ==
  IF Len(ms) = 0 THEN s ELSE Splice(s, ms, [k \in 1..Len(ms) |-> Replacement(by, s, ms[k])])

\* s.replace(re, by) with the g flag; the receiver s is a value before the call
\* is made, so its length is read first
ReplaceAll(re, s, by) ==
  IF Len(s) = 0 THEN ReplaceMatches(<<>>, All(re, <<>>), by)
  ELSE ReplaceMatches(s, All(re, s), by)

\* the g-flag replace calls passes (each [re, by]) made one after the other,
\* each on the text that the one before it gave
RECURSIVE ReplaceEach(_, _)
ReplaceEach(passes, s) ==
  CASE Len(passes) = 0 -> s
    [] Len(passes) > 0 /\ Len(s) >= 0 ->
         ReplaceEach(Tail(passes), ReplaceAll(Head(passes).re, s, Head(passes).by))

\* s.replace(re, by) without the g flag
ReplaceFirst(re, s, by) == ReplaceMatches(s, AllWithin(Exec(re, s)), by)

---------------------------------------------------------------------------
(* derivedTableFixer.ts: the balanced extraction.                          *)

\* the loop body with depth++ left out: every ")" is taken for the closing one
ExtractStepNoNesting(st, char, i) ==
  IF st.end # 0 THEN st
  ELSE IF char = ")" THEN [depth |-> st.depth - 1, end |-> i]
  ELSE st

\* one iteration of the loop at (1-based) position i; end # 0 once it has returned
ExtractStep(st, char, i) ==
  IF st.end # 0 THEN st
  ELSE IF char = "(" THEN [st EXCEPT !.depth = @ + 1]
  ELSE IF char = ")"
  THEN IF st.depth - 1 = 0 THEN [depth |-> 0, end |-> i]
       ELSE [st EXCEPT !.depth = @ - 1]
  ELSE st

\* the state of the loop after its iterations from..to, begun in state st
RECURSIVE ExtractScan(_, _, _, _)
ExtractScan(str, from, to, st) ==
  CASE st.end # 0 \/ from > to -> st
    [] st.end = 0 /\ from = to -> ExtractStep(st, str[from], from)
    [] st.end = 0 /\ from < to ->
         ExtractScan(str, (from + to) \div 2 + 1, to,
                     ExtractScan(str, from, (from + to) \div 2, st))

\* return str.substring(0, i) from inside the loop, or return str after it
ExtractResult(str, st) == IF st.end # 0 THEN Sub(str, 1, st.end) ELSE str

\* let depth = 1; for (let i = 0; i < str.length; i++) ...
extractBalancedSubstring(str) ==
  ExtractResult(str, ExtractScan(str, 1, Len(str), [depth |-> 1, end |-> 0]))

---------------------------------------------------------------------------
(* dynamicSqlExecutor.ts: error classes and the two repairs.               *)

\* error.message || ''
MessageOf(err) == IF "message" \in DOMAIN err THEN err.message ELSE <<>>

GroupByErrorPattern1 ==
  ILit(Str(<<"column">>)) \o <<Star(<<Dot>>)>>
  \o ILit(Str(<<"invalid", " ", "in", " ", "the", " ", "select", " ", "list", " ",
               "because", " ", "it", " ", "is", " ", "not", " ", "contained", " ", "in">>))
  \o <<Star(<<Dot>>)>> \o ILit(Str(<<"GROUP", " ", "BY">>))

GroupByErrorPattern2 ==
  ILit(Str(<<"must", " ", "appear", " ", "in", " ", "the", " ", "GROUP", " ", "BY",
             " ", "clause">>))

isGroupByError(err) ==
  Test(GroupByErrorPattern1, MessageOf(err)) \/ Test(GroupByErrorPattern2, MessageOf(err))

isSyntaxError(err) ==
  \/ Test(ILit(Str(<<"syntax", " ", "error">>)), MessageOf(err))
  \/ Test(ILit(Str(<<"incorrect", " ", "syntax">>)), MessageOf(err))

QualifiedNamePattern ==
  <<NotBehind({"["}), Grp(1, <<Word1, Ch({"."}), Word1>>), NotAhead(<<Ch({"]"})>>)>>

cleanSqlQuery(query) ==
  ReplaceAll(QualifiedNamePattern, SelectSeq(query, LAMBDA c : c # Backtick), "[$1]")

\* /^(.+?)\s+AS\s+(.+)$/i
AsAliasPattern ==
  <<Bol, Grp(1, <<LazyPlus(<<Dot>>)>>), Ws1>> \o ILit(Str(<<"AS">>))
  \o <<Ws1, Grp(2, <<Plus(<<Dot>>)>>), Eol>>

\* s.replace(/[\[\]]/g, '')
StripBrackets(s) == SelectSeq(s, LAMBDA c : c \notin {"[", "]"})

\* parts[parts.length - 1] of columnText.split('.'), lastDot being the last dot (0: none)
LastPart(columnText, lastDot) ==
  IF lastDot # 0 THEN Sub(columnText, lastDot + 1, Len(columnText) + 1) ELSE columnText

\* parseColumn once columnText.match(...) is known
ParseColumnWith(columnText, asMatch) ==
  IF asMatch.ok
  THEN [expression |-> Trim(Cap(columnText, asMatch, 1)),
        alias |-> StripBrackets(Trim(Cap(columnText, asMatch, 2)))]
  ELSE [expression |-> Trim(columnText),
        alias |-> Trim(StripBrackets(LastPart(columnText,
                                              LastIndexOf(columnText, <<".">>))))]

parseColumn(columnText) == ParseColumnWith(columnText, Exec(AsAliasPattern, columnText))

\* if (currentColumn.trim()) columns.push(this.parseColumn(currentColumn.trim()))
PushColumn(columns, trimmed) ==
  IF Len(trimmed) > 0 THEN Append(columns, parseColumn(trimmed)) ELSE columns

\* one iteration of a scan that splits at every comma
ParseColumnsStepAnyDepth(st, char) ==
  IF char = "("
  THEN [st EXCEPT !.depth = @ + 1, !.currentColumn = Append(@, char)]
  ELSE IF char = ")"
  THEN [st EXCEPT !.depth = @ - 1, !.currentColumn = Append(@, char)]
  ELSE IF char = ","
  THEN [st EXCEPT !.columns = PushColumn(@, Trim(st.currentColumn)),
                  !.currentColumn = <<>>]
  ELSE [st EXCEPT !.currentColumn = Append(@, char)]

\* one iteration of the scan of parseSelectColumns
ParseColumnsStep(st, char) ==
  IF char = "("
  THEN [st EXCEPT !.depth = @ + 1, !.currentColumn = Append(@, char)]
  ELSE IF char = ")"
  THEN [st EXCEPT !.depth = @ - 1, !.currentColumn = Append(@, char)]
  ELSE IF char = "," /\ st.depth = 0
  THEN [st EXCEPT !.columns = PushColumn(@, Trim(st.currentColumn)),
                  !.currentColumn = <<>>]
  ELSE [st EXCEPT !.currentColumn = Append(@, char)]

\* the state of the scan after its iterations from..to, begun in state st
\* (with depth a number, as it is from the start)
RECURSIVE ParseColumnsScan(_, _, _, _)
ParseColumnsScan(selectClause, from, to, st) ==
  CASE from > to -> st
    [] from = to /\ st.depth \in Int -> ParseColumnsStep(st, selectClause[from])
    [] from < to /\ st.depth \in Int ->
         ParseColumnsScan(selectClause, (from + to) \div 2 + 1, to,
                          ParseColumnsScan(selectClause, from, (from + to) \div 2, st))

\* the last column added to the columns of the finished scan st
ParseColumnsEnd(st) == PushColumn(st.columns, Trim(st.currentColumn))

parseSelectColumns(selectClause) ==
  ParseColumnsEnd(ParseColumnsScan(selectClause, 1, Len(selectClause),
                                   [depth |-> 0, currentColumn |-> <<>>, columns |-> <<>>]))

\* /\b(AVG|SUM|MAX|MIN|COUNT|STDEV|VAR)\s*\(/i
AggregatePattern ==
  <<Bnd,
    Grp(1, <<Alt(<<ILit(Str(<<"AVG">>)), ILit(Str(<<"SUM">>)), ILit(Str(<<"MAX">>)),
                  ILit(Str(<<"MIN">>)), ILit(Str(<<"COUNT">>)), ILit(Str(<<"STDEV">>)),
                  ILit(Str(<<"VAR">>))>>)>>),
    Ws0, Ch({"("})>>

isAggregateColumn(expression) == Test(AggregatePattern, expression)

\* /^SELECT\s+([\s\S]*?)\s+FROM\s+([\s\S]*?)(?:\s+WHERE\s+([\s\S]*?))?
\*  (?:\s+GROUP\s+BY\s+([\s\S]*?))?(?:\s+ORDER\s+BY\s+([\s\S]*?))?$/i
SelectPartsPattern ==
  <<Bol>> \o ILit(Str(<<"SELECT">>)) \o <<Ws1, Grp(1, <<LazyStar(<<AnyCh>>)>>), Ws1>>
  \o ILit(Str(<<"FROM">>)) \o <<Ws1, Grp(2, <<LazyStar(<<AnyCh>>)>>)>>
  \o <<Opt(<<Ws1>> \o ILit(Str(<<"WHERE">>)) \o <<Ws1, Grp(3, <<LazyStar(<<AnyCh>>)>>)>>)>>
  \o <<Opt(<<Ws1>> \o ILit(Str(<<"GROUP">>)) \o <<Ws1>> \o ILit(Str(<<"BY">>))
           \o <<Ws1, Grp(4, <<LazyStar(<<AnyCh>>)>>)>>)>>
  \o <<Opt(<<Ws1>> \o ILit(Str(<<"ORDER">>)) \o <<Ws1>> \o ILit(Str(<<"BY">>))
           \o <<Ws1, Grp(5, <<LazyStar(<<AnyCh>>)>>)>>)>>
  \o <<Eol>>

\* parts.join(sep)
Join(parts, sep) ==
  LET f[k \in 0..Len(parts)] ==
        IF k = 0 THEN <<>>
        ELSE f[k - 1] \o (IF k = 1 THEN <<>> ELSE sep) \o parts[k]
  IN f[Len(parts)]

\* nonAggregateColumns.map(col => col.expression).join(', ')
GroupByColumnsOf(nonAggregateColumns) ==
  Join([k \in 1..Len(nonAggregateColumns) |-> nonAggregateColumns[k].expression],
       <<",", " ">>)

\* the text a clause keyword adds when its clause was captured
ClauseText(keyword, clause) == IF Len(clause) > 0 THEN keyword \o Trim(clause) ELSE <<>>

\* newFinalSelect, from the captures of selectMatch
NewFinalSelect(selectClause, fromClause, whereClause, orderClause, groupByColumns) ==
  Str(<<"SELECT", "\n", " ", " ">>) \o Trim(selectClause)
  \o Str(<<"\n", "FROM", " ">>) \o Trim(fromClause)
  \o ClauseText(Str(<<"\n", "WHERE", " ">>), whereClause)
  \o Str(<<"\n", "GROUP", " ", "BY", " ">>) \o groupByColumns
  \o ClauseText(Str(<<"\n", "ORDER", " ", "BY", " ">>), orderClause)

\* restructureQueryWithSeparateAggregation once finalSelect.match(...) is known
RestructureWith(originalQuery, beforeFinalSelect, finalSelect, nonAggregateColumns, selectMatch) ==
  IF ~selectMatch.ok THEN originalQuery
  ELSE beforeFinalSelect
       \o NewFinalSelect(Cap(finalSelect, selectMatch, 1), Cap(finalSelect, selectMatch, 2),
                         Cap(finalSelect, selectMatch, 3), Cap(finalSelect, selectMatch, 5),
                         GroupByColumnsOf(nonAggregateColumns))

restructureQueryWithSeparateAggregation(originalQuery, beforeFinalSelect, finalSelect, aggregateColumns, nonAggregateColumns) ==
  RestructureWith(originalQuery, beforeFinalSelect, finalSelect, nonAggregateColumns,
                  Exec(SelectPartsPattern, finalSelect))

\* /(?:^|[\s\S]*\))\s*SELECT([\s\S]*?)FROM(?:\s+(?!\s*\w+\s*\()[\s\S]*?)?$/i
FinalSelectPattern ==
  <<Alt(<< <<Bol>>, <<Star(<<AnyCh>>), Ch({")"})>> >>), Ws0>>
  \o ILit(Str(<<"SELECT">>)) \o <<Grp(1, <<LazyStar(<<AnyCh>>)>>)>>
  \o ILit(Str(<<"FROM">>))
  \o <<Opt(<<Ws1, NotAhead(<<Ws0, Word1, Ws0, Ch({"("})>>), LazyStar(<<AnyCh>>)>>), Eol>>

\* s.substring(a, b) with 0-based a and b, clamped and swapped as JavaScript does
Clamp(x, n) == IF x < 0 THEN 0 ELSE IF x > n THEN n ELSE x

JsSubstring(s, a, b) ==
  IF Clamp(a, Len(s)) <= Clamp(b, Len(s))
  THEN SubSeq(s, Clamp(a, Len(s)) + 1, Clamp(b, Len(s)))
  ELSE SubSeq(s, Clamp(b, Len(s)) + 1, Clamp(a, Len(s)))

\* step 3 of fixGroupByAggregationError: restructure when both kinds of column occur
FixGroupByStep3(query, beforeFinalSelect, finalSelect, aggregateColumns, nonAggregateColumns) ==
  IF Len(aggregateColumns) > 0 /\ Len(nonAggregateColumns) > 0
  THEN restructureQueryWithSeparateAggregation(query, beforeFinalSelect, finalSelect,
                                               aggregateColumns, nonAggregateColumns)
  ELSE query

\* step 2: the columns of the SELECT clause, split by isAggregateColumn
FixGroupByStep2(query, beforeFinalSelect, finalSelect, columns) ==
  FixGroupByStep3(query, beforeFinalSelect, finalSelect,
                  SelectSeq(columns, LAMBDA col : isAggregateColumn(col.expression)),
                  SelectSeq(columns, LAMBDA col : ~isAggregateColumn(col.expression)))

\* step 1, given match0 = finalSelectMatch[0] and selectAt = match0.indexOf('SELECT')
\* (0-based, -1 when the match has no upper-case SELECT)
FixGroupBySplit(query, selectClause, match0, selectAt) ==
  FixGroupByStep2(query,
                  JsSubstring(query, 0, Len(query) - Len(match0) + selectAt),
                  JsSubstring(match0, selectAt, Len(match0)),
                  parseSelectColumns(selectClause))

\* fixGroupByAggregationError once query.match(...) is known
FixGroupByWith(query, finalSelectMatch) ==
  IF ~finalSelectMatch.ok THEN query
  ELSE FixGroupBySplit(query, Trim(Cap(query, finalSelectMatch, 1)),
                       Whole(query, finalSelectMatch),
                       IndexOf(Whole(query, finalSelectMatch), Str(<<"SELECT">>)) - 1)

fixGroupByAggregationError(query) == FixGroupByWith(query, Exec(FinalSelectPattern, query))

---------------------------------------------------------------------------
(* sqlQueryFixer.ts: fixTopWithTiesAndOffset.                              *)

\* /SELECT\s+TOP\s+\d+(?:\s+PERCENT)?(?:\s+WITH\s+TIES)?\s+/ig
TopClausePattern ==
  ILit(Str(<<"SELECT">>)) \o <<Ws1>> \o ILit(Str(<<"TOP">>))
  \o <<Ws1, Plus(<<Ch(DigitCh)>>), Opt(<<Ws1>> \o ILit(Str(<<"PERCENT">>))),
       Opt(<<Ws1>> \o ILit(Str(<<"WITH">>)) \o <<Ws1>> \o ILit(Str(<<"TIES">>))), Ws1>>

\* /SELECT\s+TOP\s+\d+(?:\s+PERCENT)?(?:\s+WITH\s+TIES)?\s+.*?\bOFFSET\b/is
regexTopWithOffset ==
  TopClausePattern \o <<LazyStar(<<AnyCh>>), Bnd>> \o ILit(Str(<<"OFFSET">>)) \o <<Bnd>>

\* match => `SELECT /* ${match.trim()} converted */ `
TopAsComment(match) ==
  Str(<<"SELECT", " ", "/", "*", " ">>) \o Trim(match)
  \o Str(<<" ", "converted", " ", "*", "/", " ">>)

\* the function without its test for a later OFFSET
fixTopWithoutOffsetTest(query) == ReplaceAll(TopClausePattern, query, "top as comment")

fixTopWithTiesAndOffset(query) ==
  IF Test(regexTopWithOffset, query)
  THEN ReplaceAll(TopClausePattern, query, "top as comment")
  ELSE query

---------------------------------------------------------------------------
(* sqlQueryFixer.ts: formatTableNameForSQLServer and fixMalformedJoins.    *)

\* [A-Za-z_][A-ZaZ0-9_]* under the i flag
Identifier == <<Ch(LowerCh \cup UpperCh \cup {"_"}), Star(<<Ch(WordCh)>>)>>

\* (\bFROM|\bJOIN)\s+
FromOrJoin ==
  <<Grp(1, <<Alt(<< <<Bnd>> \o ILit(Str(<<"FROM">>)), <<Bnd>> \o ILit(Str(<<"JOIN">>)) >>)>>), Ws1>>

\* s.split(sep) for a separator of one character, at being the first one (0: none)
RECURSIVE Split(_, _)
SplitWith(s, sep, at) ==
  IF at = 0 THEN <<s>>
  ELSE <<Sub(s, 1, at)>> \o Split(Sub(s, at + 1, Len(s) + 1), sep)

Split(s, sep) == SplitWith(s, sep, IndexOf(s, <<sep>>))

\* s.split(/\s+/).filter(Boolean), firstSpace being the first white space of t = s.trim()
RECURSIVE Tokens(_)
TokensWith(t, firstSpace) ==
  IF Len(t) = 0 THEN <<>>
  ELSE IF firstSpace > Len(t) THEN <<t>>
  ELSE <<Sub(t, 1, firstSpace)>> \o Tokens(Sub(t, firstSpace, Len(t) + 1))

TokensOf(t) == TokensWith(t, MinOr({p \in 1..Len(t) : t[p] \in SpaceCh}, Len(t) + 1))

Tokens(s) == TokensOf(Trim(s))

\* s.replace(/^\[|\]$/g, '').trim()
removeBrackets(s) ==
  Trim(ReplaceAll(<<Alt(<< <<Bol, Ch({"["})>>, <<Ch({"]"}), Eol>> >>)>>, s, ""))

\* s.replace(/\.$/, '')
WithoutLastDot(s) == ReplaceFirst(<<Ch({"."}), Eol>>, s, "")

\* s.replace(/^\.+/, '')
WithoutLeadingDots(s) == ReplaceFirst(<<Bol, Plus(<<Ch({"."})>>)>>, s, "")

\* name.split('.').map(p => p.trim()).filter(Boolean)
NameParts(name) ==
  SelectSeq([k \in 1..Len(Split(name, ".")) |-> Trim(Split(name, ".")[k])],
            LAMBDA p : Len(p) > 0)

\* the name has no part: parts[0] is undefined and removeBrackets throws
FormatThrows(name) == Len(name) > 0 /\ Len(NameParts(name)) = 0

\* /[^A-Za-z0-9_]/.test(schema) ? `[${schema}]` : schema
FormattedSchema(schema) ==
  IF Test(<<NCh(WordCh)>>, schema) THEN <<"[">> \o schema \o <<"]">> ELSE schema

FormatParts(parts) ==
  IF Len(parts) = 2
  THEN FormattedSchema(removeBrackets(parts[1])) \o <<".", "[">>
       \o removeBrackets(parts[2]) \o <<"]">>
  ELSE <<"[">> \o removeBrackets(parts[1]) \o <<"]">>

formatTableNameForSQLServer(name) ==
  IF Len(name) = 0 THEN name ELSE FormatParts(NameParts(name))

\* /\[\s*(FROM|JOIN|INNER\s+JOIN|LEFT\s+JOIN|RIGHT\s+JOIN)\s+([^\]]+)\]/gi
WrappedClausePattern ==
  <<Ch({"["}), Ws0,
    Grp(1, <<Alt(<< ILit(Str(<<"FROM">>)), ILit(Str(<<"JOIN">>)),
                    ILit(Str(<<"INNER">>)) \o <<Ws1>> \o ILit(Str(<<"JOIN">>)),
                    ILit(Str(<<"LEFT">>)) \o <<Ws1>> \o ILit(Str(<<"JOIN">>)),
                    ILit(Str(<<"RIGHT">>)) \o <<Ws1>> \o ILit(Str(<<"JOIN">>)) >>)>>),
    Ws1, Grp(2, <<Plus(<<NCh({"]"})>>)>>), Ch({"]"})>>

\* (match, keyword, content) => `${keyword} ${content}`
UnwrapClause(s, m) == Cap(s, m, 1) \o <<" ">> \o Cap(s, m, 2)

\* /\[([^\[\]]+)\]\s+([^\[\]]+)\]/g
MisplacedBracketPattern ==
  <<Ch({"["}), Grp(1, <<Plus(<<NCh({"[", "]"})>>)>>), Ch({"]"}), Ws1,
    Grp(2, <<Plus(<<NCh({"[", "]"})>>)>>), Ch({"]"})>>

\* the words of /^(?:ON|AND|OR|...|TRUE|FALSE)$/i
NotTableNameWords ==
  {Str(<<"ON">>), Str(<<"AND">>), Str(<<"OR">>), Str(<<"WHERE">>), Str(<<"FROM">>),
   Str(<<"JOIN">>), Str(<<"INNER">>), Str(<<"LEFT">>), Str(<<"RIGHT">>), Str(<<"FULL">>),
   Str(<<"CROSS">>), Str(<<"OUTER">>), Str(<<"HAVING">>), Str(<<"GROUP">>),
   Str(<<"ORDER">>), Str(<<"BY">>), Str(<<"ASC">>), Str(<<"DESC">>), Str(<<"UNION">>),
   Str(<<"ALL">>), Str(<<"ANY">>), Str(<<"SOME">>), Str(<<"EXISTS">>), Str(<<"IN">>),
   Str(<<"AS">>), Str(<<"IS">>), Str(<<"NULL">>), Str(<<"NOT">>), Str(<<"TRUE">>),
   Str(<<"FALSE">>)}

\* /^[=<>!+\-*/,;()]+/
StartsWithOperator(s) ==
  Len(s) > 0 /\ s[1] \in {"=", "<", ">", "!", "+", "-", "*", "/", ",", ";", "(", ")"}

\* /^(?:ON|WHERE|GROUP|ORDER|HAVING)\b/i
ClauseStartPattern ==
  <<Bol, Alt(<< ILit(Str(<<"ON">>)), ILit(Str(<<"WHERE">>)), ILit(Str(<<"GROUP">>)),
                ILit(Str(<<"ORDER">>)), ILit(Str(<<"HAVING">>)) >>), Bnd>>

\* /^[A-Za-z]/
StartsWithLetter(s) == Len(s) > 0 /\ s[1] \in LowerCh \cup UpperCh

\* the condition under which [part1] part2] is taken for a table name with a space
LooksLikeBrokenName(part1, part2) ==
  /\ ToUpper(part2) \notin NotTableNameWords
  /\ ~StartsWithOperator(part2)
  /\ ~StartsWithOperator(part1)
  /\ Len(part1) > 1 /\ Len(part2) > 1
  /\ ~Test(ClauseStartPattern, part2)
  /\ StartsWithLetter(part1) /\ StartsWithLetter(part2)

MergeBrokenName(s, m) ==
  IF LooksLikeBrokenName(Cap(s, m, 1), Cap(s, m, 2))
  THEN <<"[">> \o Cap(s, m, 1) \o <<" ">> \o Cap(s, m, 2) \o <<"]">>
  ELSE Whole(s, m)

\* the two rewrites before the loop
PreLoopRewrites(query) ==
  ReplaceEach(<<[re |-> WrappedClausePattern, by |-> "unwrap clause"],
                [re |-> MisplacedBracketPattern, by |-> "merge broken name"]>>, query)

\* schema ? schema.replace(/\.$/, '') : 'dbo'
SchemaOrDbo(s, m, g) ==
  IF Len(Cap(s, m, g)) > 0 THEN WithoutLastDot(Cap(s, m, g)) ELSE Str(<<"dbo">>)

\* [\w\s]+
NameWithSpaces == Plus(<<Ch(WordCh \cup SpaceCh)>>)

\* (dbo\.)? as group g
DboDot(g) == Opt(<<Grp(g, ILit(Str(<<"dbo">>)) \o <<Ch({"."})>>)>>)

\* /(\bFROM|\bJOIN)\s+\[(dbo\.)?([\w\s]+)\.(\w+)\.(?:INNER\.)?JOIN\.\[(dbo\.)?([\w\s]+)
\*  \.(\w+)\.ON\.(\w+)\.(\w+)\s*=\s*(\w+)\.(\w+)\]/gi
DottedJoinPattern ==
  FromOrJoin
  \o <<Ch({"["}), DboDot(2), Grp(3, <<NameWithSpaces>>), Ch({"."}), Grp(4, <<Word1>>),
       Ch({"."}), Opt(ILit(Str(<<"INNER">>)) \o <<Ch({"."})>>)>>
  \o ILit(Str(<<"JOIN">>))
  \o <<Ch({"."}), Ch({"["}), DboDot(5), Grp(6, <<NameWithSpaces>>), Ch({"."}),
       Grp(7, <<Word1>>), Ch({"."})>>
  \o ILit(Str(<<"ON">>))
  \o <<Ch({"."}), Grp(8, <<Word1>>), Ch({"."}), Grp(9, <<Word1>>), Ws0, Ch({"="}), Ws0,
       Grp(10, <<Word1>>), Ch({"."}), Grp(11, <<Word1>>), Ch({"]"})>>

\* schema ? schema : 'dbo', the dot that ends the capture left in place
SchemaAsCaptured(s, m, g) == IF Len(Cap(s, m, g)) > 0 THEN Cap(s, m, g) ELSE Str(<<"dbo">>)

\* the callback of the first pass with the schemas as captured
DottedJoinSchemaAsCaptured(s, m) ==
  Cap(s, m, 1) \o <<" ", "[">> \o SchemaAsCaptured(s, m, 2) \o <<"]", ".", "[">>
  \o Cap(s, m, 3) \o <<"]", " ">> \o Cap(s, m, 4)
  \o Str(<<" ", "INNER", " ", "JOIN", " ", "[">>) \o SchemaAsCaptured(s, m, 5)
  \o <<"]", ".", "[">> \o Cap(s, m, 6) \o <<"]", " ">> \o Cap(s, m, 7)
  \o Str(<<" ", "ON", " ">>) \o Cap(s, m, 4) \o <<".">> \o Cap(s, m, 9)
  \o <<" ", "=", " ">> \o Cap(s, m, 10) \o <<".">> \o Cap(s, m, 11)

\* `${keyword} [${schema1}].[${table1}] ${alias1} INNER JOIN [${schema2}].[${table2}]
\*  ${alias2} ON ${alias1}.${col1} = ${prefix2}.${col2}`
DottedJoin(s, m) ==
  Cap(s, m, 1) \o <<" ", "[">> \o SchemaOrDbo(s, m, 2) \o <<"]", ".", "[">>
  \o Cap(s, m, 3) \o <<"]", " ">> \o Cap(s, m, 4)
  \o Str(<<" ", "INNER", " ", "JOIN", " ", "[">>) \o SchemaOrDbo(s, m, 5)
  \o <<"]", ".", "[">> \o Cap(s, m, 6) \o <<"]", " ">> \o Cap(s, m, 7)
  \o Str(<<" ", "ON", " ">>) \o Cap(s, m, 4) \o <<".">> \o Cap(s, m, 9)
  \o <<" ", "=", " ">> \o Cap(s, m, 10) \o <<".">> \o Cap(s, m, 11)

\* the first targeted pass of the loop
FirstTargetedPass(query) == ReplaceAll(DottedJoinPattern, query, "dotted join")

\* /(\bFROM|\bJOIN)\s+(dbo\.)?(\[[^\]]+\])\s+(\w+)\s+(?:INNER\s+)?JOIN\s+(dbo\.)?
\*  (\[[^\]]+\s+(\w+)\s+ON\s+\w+\])\.(\w+)\s*=\s*(\w+)\.(\w+)/gi
AliasInBracketsPattern ==
  FromOrJoin
  \o <<DboDot(2), Grp(3, <<Ch({"["}), Plus(<<NCh({"]"})>>), Ch({"]"})>>), Ws1,
       Grp(4, <<Word1>>), Ws1, Opt(ILit(Str(<<"INNER">>)) \o <<Ws1>>)>>
  \o ILit(Str(<<"JOIN">>))
  \o <<Ws1, DboDot(5),
       Grp(6, <<Ch({"["}), Plus(<<NCh({"]"})>>), Ws1, Grp(7, <<Word1>>), Ws1>>
              \o ILit(Str(<<"ON">>)) \o <<Ws1, Word1, Ch({"]"})>>),
       Ch({"."}), Grp(8, <<Word1>>), Ws0, Ch({"="}), Ws0, Grp(9, <<Word1>>), Ch({"."}),
       Grp(10, <<Word1>>)>>

\* schema || 'dbo.'
SchemaOrDboDot(s, m, g) ==
  IF Len(Cap(s, m, g)) > 0 THEN Cap(s, m, g) ELSE Str(<<"dbo", ".">>)

\* tableWithAlias.replace(new RegExp(`\\s+${alias2}\\s+ON\\s+\\w+$`, 'i'), '')
TableNameOf(tableWithAlias, alias2) ==
  ReplaceFirst(<<Ws1>> \o ILit(alias2) \o <<Ws1>> \o ILit(Str(<<"ON">>)) \o <<Ws1, Word1, Eol>>,
               tableWithAlias, "")

\* `${keyword} ${schema1}${table1} ${alias1} JOIN ${schema2}${tableName} ${alias2}
\*  ON ${alias1}.${col1} = ${prefix2}.${col2}`
AliasOutOfBrackets(s, m) ==
  Cap(s, m, 1) \o <<" ">> \o SchemaOrDboDot(s, m, 2) \o Cap(s, m, 3) \o <<" ">>
  \o Cap(s, m, 4) \o Str(<<" ", "JOIN", " ">>) \o SchemaOrDboDot(s, m, 5)
  \o TableNameOf(Cap(s, m, 6), Cap(s, m, 7)) \o <<" ">> \o Cap(s, m, 7)
  \o Str(<<" ", "ON", " ">>) \o Cap(s, m, 4) \o <<".">> \o Cap(s, m, 8)
  \o <<" ", "=", " ">> \o Cap(s, m, 9) \o <<".">> \o Cap(s, m, 10)

\* /(\bFROM|\bJOIN)\s+\[(dbo\.)?([\w\s]+)\.(\w+)\.(?:INNER\.)?JOIN\.(dbo\.)?([\w\s]+)
\*  \.(\w+)\.ON\.([^\]]+)\]/gi
LooseDottedJoinPattern ==
  FromOrJoin
  \o <<Ch({"["}), DboDot(2), Grp(3, <<NameWithSpaces>>), Ch({"."}), Grp(4, <<Word1>>),
       Ch({"."}), Opt(ILit(Str(<<"INNER">>)) \o <<Ch({"."})>>)>>
  \o ILit(Str(<<"JOIN">>))
  \o <<Ch({"."}), DboDot(5), Grp(6, <<NameWithSpaces>>), Ch({"."}), Grp(7, <<Word1>>),
       Ch({"."})>>
  \o ILit(Str(<<"ON">>))
  \o <<Ch({"."}), Grp(8, <<Plus(<<NCh({"]"})>>)>>), Ch({"]"})>>

\* `${keyword} [${schema1}].[${table1}] ${alias1} INNER JOIN [${schema2}].[${table2}]
\*  ${alias2} ON ${conditions}`
LooseDottedJoin(s, m) ==
  Cap(s, m, 1) \o <<" ", "[">> \o SchemaOrDbo(s, m, 2) \o <<"]", ".", "[">>
  \o Cap(s, m, 3) \o <<"]", " ">> \o Cap(s, m, 4)
  \o Str(<<" ", "INNER", " ", "JOIN", " ", "[">>) \o SchemaOrDbo(s, m, 5)
  \o <<"]", ".", "[">> \o Cap(s, m, 6) \o <<"]", " ">> \o Cap(s, m, 7)
  \o Str(<<" ", "ON", " ">>) \o Cap(s, m, 8)

\* /\[([^\]]*?\b(ON|INNER\s+JOIN|JOIN)\b[^\]]*?)\]/gi
StrayKeywordPattern ==
  <<Ch({"["}),
    Grp(1, <<LazyStar(<<NCh({"]"})>>), Bnd,
             Grp(2, <<Alt(<< ILit(Str(<<"ON">>)),
                             ILit(Str(<<"INNER">>)) \o <<Ws1>> \o ILit(Str(<<"JOIN">>)),
                             ILit(Str(<<"JOIN">>)) >>)>>),
             Bnd, LazyStar(<<NCh({"]"})>>)>>),
    Ch({"]"})>>

\* cleanedBefore, from before
CleanedBefore(before) ==
  IF Len(before) > 0 THEN <<"[">> \o removeBrackets(before) \o <<"]">> ELSE <<>>

\* the result for the keyword found at (1-based) position at of content
SplitAtKeyword(content, at, keyword) ==
  CleanedBefore(Trim(Sub(content, 1, at))) \o <<" ">> \o keyword \o <<" ">>
  \o WithoutLeadingDots(Trim(Sub(content, at + Len(keyword), Len(content) + 1)))

\* the callback, with the last positions of ' ON ', ' INNER JOIN ' and ' JOIN ' in up
MoveKeywordOutWith(match, content, onIdx, innerJoinIdx, joinIdx) ==
  IF onIdx # 0 THEN SplitAtKeyword(content, onIdx, Str(<<"ON">>))
  ELSE IF innerJoinIdx # 0
  THEN SplitAtKeyword(content, innerJoinIdx, Str(<<"INNER", " ", "JOIN">>))
  ELSE IF joinIdx # 0 THEN SplitAtKeyword(content, joinIdx, Str(<<"JOIN">>))
  ELSE match

MoveKeywordOut(s, m) ==
  MoveKeywordOutWith(Whole(s, m), Cap(s, m, 1),
                     LastIndexOf(ToUpper(Cap(s, m, 1)), Str(<<" ", "ON", " ">>)),
                     LastIndexOf(ToUpper(Cap(s, m, 1)), Str(<<" ", "INNER", " ", "JOIN", " ">>)),
                     LastIndexOf(ToUpper(Cap(s, m, 1)), Str(<<" ", "JOIN", " ">>)))

\* /(\bFROM|\bJOIN)\s+([A-Za-z_][A-ZaZ0-9_]*\.)?\[([^\]]*ON[^\]]*)\]\.
\*  ([A-Za-z_][A-ZaZ0-9_]*)\s*=\s*([^\s;]+)/gi
bracketOnPattern ==
  FromOrJoin
  \o <<Opt(<<Grp(2, Identifier \o <<Ch({"."})>>)>>), Ch({"["}),
       Grp(3, <<Star(<<NCh({"]"})>>)>> \o ILit(Str(<<"ON">>)) \o <<Star(<<NCh({"]"})>>)>>),
       Ch({"]"}), Ch({"."}), Grp(4, Identifier), Ws0, Ch({"="}), Ws0,
       Grp(5, <<Plus(<<NCh(SpaceCh \cup {";"})>>)>>)>>

\* tableName and alias, from the tokens of the text in the brackets
TableNameOfTokens(tokens, whole) ==
  IF Len(tokens) > 1 THEN Join(SubSeq(tokens, 1, Len(tokens) - 1), <<" ">>) ELSE whole

AliasOfTokens(tokens) == IF Len(tokens) > 1 THEN tokens[Len(tokens)] ELSE <<>>

\* schema ? `${schema}.${tableName}` : tableName
QualifiedName(schemaPart, tableName) ==
  IF Len(WithoutLastDot(schemaPart)) > 0
  THEN WithoutLastDot(schemaPart) \o <<".">> \o tableName
  ELSE tableName

\* the result once the table name and the alias are known
BracketOnResult(match, keyword, name, alias, afterOn, leftColumn, rhs) ==
  IF FormatThrows(name) THEN match
  ELSE keyword \o <<" ">> \o formatTableNameForSQLServer(name)
       \o (IF Len(alias) > 0 THEN <<" ">> \o alias ELSE <<>>)
       \o Str(<<" ", "ON", " ">>) \o WithoutLeadingDots(afterOn) \o <<".">> \o leftColumn
       \o <<" ", "=", " ">> \o WithoutLeadingDots(rhs)

\* the callback, with onIndex the last ' ON ' of the text in the brackets (0: none)
BracketOnWith(s, m, bracketContent, onIndex, beforeOn) ==
  IF onIndex = 0 THEN Whole(s, m)
  ELSE BracketOnResult(Whole(s, m), Cap(s, m, 1),
                       QualifiedName(Cap(s, m, 2), TableNameOfTokens(Tokens(beforeOn), beforeOn)),
                       AliasOfTokens(Tokens(beforeOn)),
                       Trim(Sub(bracketContent, onIndex + 4, Len(bracketContent) + 1)),
                       Cap(s, m, 4), Cap(s, m, 5))

BracketOn(s, m) ==
  BracketOnWith(s, m, Cap(s, m, 3),
                LastIndexOf(ToUpper(Cap(s, m, 3)), Str(<<" ", "ON", " ">>)),
                Trim(Sub(Cap(s, m, 3), 1,
                         LastIndexOf(ToUpper(Cap(s, m, 3)), Str(<<" ", "ON", " ">>)))))

\* /(\bFROM|\bJOIN)\s+([A-Za-z_][A-ZaZ0-9_]*\.)?\[([^\]]*?)\]\.?
\*  (?:([A-Za-z_][A-ZaZ0-9_]*)\s*)?\s*=\s*([^\s;]+)/gi
bracketAliasPattern ==
  FromOrJoin
  \o <<Opt(<<Grp(2, Identifier \o <<Ch({"."})>>)>>), Ch({"["}),
       Grp(3, <<LazyStar(<<NCh({"]"})>>)>>), Ch({"]"}), Opt(<<Ch({"."})>>),
       Opt(<<Grp(4, Identifier), Ws0>>), Ws0, Ch({"="}), Ws0,
       Grp(5, <<Plus(<<NCh(SpaceCh \cup {";"})>>)>>)>>

\* leftColumnMaybe && leftColumnMaybe.length ? leftColumnMaybe : (rhs.split('.')[1] || '')
LeftColumnOf(leftColumnMaybe, rhs) ==
  IF Len(leftColumnMaybe) > 0 THEN leftColumnMaybe
  ELSE IF Len(Split(rhs, ".")) >= 2 THEN Split(rhs, ".")[2]
  ELSE <<>>

\* the result once the table name, the alias and the left column are known
BracketAliasResult(match, keyword, tableName, name, alias, leftColumn, rhs) ==
  IF Len(leftColumn) = 0 \/ FormatThrows(name) THEN match
  ELSE keyword \o <<" ">> \o formatTableNameForSQLServer(name)
       \o (IF Len(alias) > 0 THEN <<" ">> \o alias ELSE <<>>)
       \o Str(<<" ", "ON", " ">>) \o (IF Len(alias) > 0 THEN alias ELSE tableName)
       \o <<".">> \o leftColumn \o <<" ", "=", " ">> \o rhs

BracketAlias(s, m) ==
  BracketAliasResult(Whole(s, m), Cap(s, m, 1),
                     TableNameOfTokens(Tokens(Cap(s, m, 3)), Cap(s, m, 3)),
                     QualifiedName(Cap(s, m, 2),
                                   TableNameOfTokens(Tokens(Cap(s, m, 3)), Cap(s, m, 3))),
                     AliasOfTokens(Tokens(Cap(s, m, 3))),
                     LeftColumnOf(Cap(s, m, 4), Cap(s, m, 5)), Cap(s, m, 5))

\* the passes of the loop after the first targeted one, in their order
RemainingBattery(query) ==
  ReplaceEach(<<[re |-> AliasInBracketsPattern, by |-> "alias out of brackets"],
                [re |-> LooseDottedJoinPattern, by |-> "loose dotted join"],
                [re |-> StrayKeywordPattern, by |-> "move keyword out"],
                [re |-> bracketOnPattern, by |-> "bracket on"],
                [re |-> bracketAliasPattern, by |-> "bracket alias"]>>, query)

\* one iteration of the do ... while loop
JoinPass(query) == RemainingBattery(FirstTargetedPass(query))

\* the loop left after its first iteration, whatever that changed
JoinLoopOnce(prev, query) == query

\* do { prev = query; ... } while (query !== prev), query being the result of a pass on prev
RECURSIVE JoinLoopWith(_, _)
JoinLoopWith(prev, query) ==
  IF query = prev THEN query ELSE JoinLoopWith(query, JoinPass(query))

JoinLoop(query) == JoinLoopWith(query, JoinPass(query))

fixMalformedJoins(query) ==
  IF Len(query) = 0 THEN query ELSE JoinLoop(PreLoopRewrites(query))

---------------------------------------------------------------------------
(* sqlQueryFixer.ts: fixOrderByBeforeUnion.                                *)

\* (?:\s+ALL)?
OptionalAll == Opt(<<Ws1>> \o ILit(Str(<<"ALL">>)))

\* /\b(UNION(?:\s+ALL)?)\b/gi
UnionSplitPattern == <<Bnd, Grp(1, ILit(Str(<<"UNION">>)) \o <<OptionalAll>>), Bnd>>

\* /^UNION(?:\s+ALL)?$/gi
UnionKeywordPattern == <<Bol>> \o ILit(Str(<<"UNION">>)) \o <<OptionalAll, Eol>>

\* s.split(re) for a pattern with one capture group and the matches ms on s, none
\* of them empty: the texts between the matches, the capture after each but the last
SplitAround(s, ms) ==
  [k \in 1..(2 * Len(ms) + 1) |->
     IF k % 2 = 0 THEN Cap(s, ms[k \div 2], 1)
     ELSE Sub(s, IF k = 1 THEN 1 ELSE ms[(k - 1) \div 2].e,
                 IF k = 2 * Len(ms) + 1 THEN Len(s) + 1 ELSE ms[(k + 1) \div 2].b)]

\* sqlQuery.split(/\b(UNION(?:\s+ALL)?)\b/gi)
UnionParts(sqlQuery) == SplitAround(sqlQuery, All(UnionSplitPattern, sqlQuery))

\* part.substring(j, j + 8).toUpperCase().startsWith('ORDER BY'), j counted from 1
OrderByAt(part, j) ==
  ToUpper(JsSubstring(part, j - 1, j + 7)) = Str(<<"ORDER", " ", "BY">>)

\* the string-literal bookkeeping of one iteration of the scan
TrackString(st, char) ==
  IF char \in {"'", "\""} /\ ~st.inString
  THEN [st EXCEPT !.inString = TRUE, !.stringChar = char]
  ELSE IF char = st.stringChar /\ st.inString
  THEN [st EXCEPT !.inString = FALSE, !.stringChar = ""]
  ELSE st

\* parenDepth after the character char
TrackDepth(parenDepth, char) ==
  IF char = "(" THEN parenDepth + 1 ELSE IF char = ")" THEN parenDepth - 1 ELSE parenDepth

\* the rest of the iteration, st being the state after the bookkeeping of strings
OrderByFound(st, part, j) ==
  IF st.inString THEN st
  ELSE IF TrackDepth(st.parenDepth, part[j]) = 0 /\ OrderByAt(part, j)
  THEN [st EXCEPT !.parenDepth = TrackDepth(st.parenDepth, part[j]), !.orderByStart = j]
  ELSE [st EXCEPT !.parenDepth = TrackDepth(st.parenDepth, part[j])]

\* one iteration of the scan at position j (from 1); orderByStart # 0 after the break
OrderByStep(st, part, j) ==
  IF st.orderByStart # 0 THEN st ELSE OrderByFound(TrackString(st, part[j]), part, j)

\* the state of the scan after its iterations from..to, begun in state st
RECURSIVE OrderByScan(_, _, _, _)
OrderByScan(part, from, to, st) ==
  CASE st.orderByStart # 0 \/ from > to -> st
    [] st.orderByStart = 0 /\ from = to -> OrderByStep(st, part, from)
    [] st.orderByStart = 0 /\ from < to ->
         OrderByScan(part, (from + to) \div 2 + 1, to,
                     OrderByScan(part, from, (from + to) \div 2, st))

\* orderByStart (from 1; 0 for -1) of a part
OrderByStart(part) ==
  OrderByScan(part, 1, Len(part),
              [parenDepth |-> 0, orderByStart |-> 0, inString |-> FALSE, stringChar |-> ""]
             ).orderByStart

\* '\n-- ORDER BY clause removed (not allowed before UNION)\n'
RemovedNote ==
  Str(<<"\n", "-", "-", " ", "ORDER", " ", "BY", " ", "clause", " ", "removed", " ", "(",
        "not", " ", "allowed", " ", "before", " ", "UNION", ")", "\n">>)

\* the part without what begins at orderByStart, if that was found
WithoutOrderBy(part, orderByStart) ==
  IF orderByStart # 0 THEN Trim(Sub(part, 1, orderByStart)) \o RemovedNote ELSE part

\* what the i-th part adds to result
UnionPartResult(unionParts, i) ==
  IF Test(UnionKeywordPattern, Trim(unionParts[i])) THEN unionParts[i]
  ELSE IF i < Len(unionParts) THEN WithoutOrderBy(unionParts[i], OrderByStart(unionParts[i]))
  ELSE unionParts[i]

\* result after the loop over the parts
JoinedParts(unionParts) ==
  LET f[i \in 0..Len(unionParts)] ==
        IF i = 0 THEN <<>> ELSE f[i - 1] \o UnionPartResult(unionParts, i)
  IN f[Len(unionParts)]

fixOrderByBeforeUnion(sqlQuery) ==
  IF Len(sqlQuery) = 0 THEN sqlQuery ELSE JoinedParts(UnionParts(sqlQuery))

---------------------------------------------------------------------------
(* utils/sqlQueryFixer.ts: fixSqlQuery.                                    *)

\* (AVG|SUM|MAX|MIN|COUNT), case-insensitive, as group id
AggregateName(id) ==
  Grp(id, <<Alt(<<ILit(Str(<<"AVG">>)), ILit(Str(<<"SUM">>)), ILit(Str(<<"MAX">>)),
                   ILit(Str(<<"MIN">>)), ILit(Str(<<"COUNT">>))>>)>>)

\* /\b(AVG|SUM|MAX|MIN|COUNT)\s*\(/i
AggregateCallPattern == <<Bnd, AggregateName(1), Ws0, Ch({"("})>>

\* \bGROUP\s+BY\b
GroupByWords == <<Bnd>> \o ILit(Str(<<"GROUP">>)) \o <<Ws1>> \o ILit(Str(<<"BY">>)) \o <<Bnd>>

\* /\bSELECT\b(?:(?!\bGROUP\s+BY\b).)*\b(AVG|SUM|MAX|MIN|COUNT)\s*\(/is
SelectBeforeAggregatePattern ==
  <<Bnd>> \o ILit(Str(<<"SELECT">>)) \o <<Bnd, Star(<<NotAhead(GroupByWords), AnyCh>>)>>
  \o <<Bnd, AggregateName(1), Ws0, Ch({"("})>>

hasGroupByAggregationIssue(query) ==
  Test(AggregateCallPattern, query) /\ Test(SelectBeforeAggregatePattern, query)

\* /\bSELECT\b(.*?)(?:\bFROM\b|$)/is
SelectClausePattern ==
  <<Bnd>> \o ILit(Str(<<"SELECT">>)) \o <<Bnd, Grp(1, <<LazyStar(<<AnyCh>>)>>)>>
  \o <<Alt(<< <<Bnd>> \o ILit(Str(<<"FROM">>)) \o <<Bnd>>, <<Eol>> >>)>>

\* /\b(AVG|SUM|MAX|MIN|COUNT)\s*\(([^)]+)\)(?:\s+AS\s+([^\s,]+))?/ig
functionRegex ==
  <<Bnd, AggregateName(1), Ws0, Ch({"("}), Grp(2, <<Plus(<<NCh({")"})>>)>>), Ch({")"})>>
  \o <<Opt(<<Ws1>> \o ILit(Str(<<"AS">>)) \o <<Ws1, Grp(3, <<Plus(<<NCh(SpaceCh \cup {","})>>)>>)>>)>>

\* argument.replace(/[^\w]/g, '_')
WordOnly(argument) ==
  [i \in 1..Len(argument) |-> IF argument[i] \in WordCh THEN argument[i] ELSE "_"]

\* the alias of one match of functionRegex
AliasOf(selectClause, match) ==
  IF HasCap(match, 3) /\ Len(Cap(selectClause, match, 3)) > 0
  THEN Trim(Cap(selectClause, match, 3))
  ELSE Cap(selectClause, match, 1) \o <<"_">> \o WordOnly(Trim(Cap(selectClause, match, 2)))

\* the entry pushed for one match of functionRegex
AggregateOf(selectClause, match) ==
  [function |-> Cap(selectClause, match, 1) \o <<"(">> \o Trim(Cap(selectClause, match, 2))
                \o <<")">>,
   alias |-> AliasOf(selectClause, match)]

\* the while loop of extractAggregateFunctions over selectClause
AggregatesIn(selectClause, matches) ==
  [k \in 1..Len(matches) |-> AggregateOf(selectClause, matches[k])]

ExtractAggregatesWith(sql, selectMatch) ==
  IF ~selectMatch.ok THEN <<>>
  ELSE AggregatesIn(Cap(sql, selectMatch, 1), All(functionRegex, Cap(sql, selectMatch, 1)))

extractAggregateFunctions(sql) == ExtractAggregatesWith(sql, Exec(SelectClausePattern, sql))

\* aggregates.map(fn => `${fn.function} AS ${fn.alias}`).join(',\n    ')
AggregateList(aggregates) ==
  Join([k \in 1..Len(aggregates) |->
          aggregates[k].function \o Str(<<" ", "AS", " ">>) \o aggregates[k].alias],
       Str(<<",", "\n", " ", " ", " ", " ">>))

\* /\bFROM\b(.*?)(?:\bWHERE\b|$)/is
FromClausePattern ==
  <<Bnd>> \o ILit(Str(<<"FROM">>)) \o <<Bnd, Grp(1, <<LazyStar(<<AnyCh>>)>>)>>
  \o <<Alt(<< <<Bnd>> \o ILit(Str(<<"WHERE">>)) \o <<Bnd>>, <<Eol>> >>)>>

\* /\bWHERE\b(.*?)(?:\bGROUP\s+BY\b|$)/is
WhereClausePattern ==
  <<Bnd>> \o ILit(Str(<<"WHERE">>)) \o <<Bnd, Grp(1, <<LazyStar(<<AnyCh>>)>>)>>
  \o <<Alt(<<GroupByWords, <<Eol>> >>)>>

AggregationCteWith(sql, aggregates, fromMatch, whereMatch) ==
  IF ~fromMatch.ok THEN <<>>
  ELSE Str(<<"SELECT", "\n", " ", " ", " ", " ">>) \o AggregateList(aggregates)
       \o Str(<<"\n", " ", " ", "FROM">>) \o Cap(sql, fromMatch, 1)
       \o Str(<<"\n", " ", " ">>)
       \o (IF whereMatch.ok THEN Str(<<"WHERE", " ">>) \o Cap(sql, whereMatch, 1) ELSE <<>>)

createAggregationCte(sql, aggregates) ==
  AggregationCteWith(sql, aggregates, Exec(FromClausePattern, sql), Exec(WhereClausePattern, sql))

\* selectClause.replace(regex, `AggregatedData.${fn.alias}`), the regex being the
\* escaped text of fn.function with the flags gi
WithAggregateReplaced(selectClause, fn, matches) ==
  Splice(selectClause, matches,
         [k \in 1..Len(matches) |-> Str(<<"AggregatedData", ".">>) \o fn.alias])

\* aggregates.forEach over selectClause
RECURSIVE ReplaceAggregates(_, _)
ReplaceAggregates(selectClause, aggregates) ==
  CASE Len(aggregates) = 0 -> selectClause
    [] Len(aggregates) > 0 /\ Len(selectClause) >= 0 ->
         ReplaceAggregates(WithAggregateReplaced(selectClause, Head(aggregates),
                                                 All(ILit(Head(aggregates).function),
                                                     selectClause)),
                           Tail(aggregates))

SelectListWith(sql, aggregates, selectMatch) ==
  IF ~selectMatch.ok THEN <<"*">> ELSE ReplaceAggregates(Cap(sql, selectMatch, 1), aggregates)

createSelectListWithAggregates(sql, aggregates) ==
  SelectListWith(sql, aggregates, Exec(SelectClausePattern, sql))

\* /\bWITH\b/i
WithPattern == <<Bnd>> \o ILit(Str(<<"WITH">>)) \o <<Bnd>>

\* /(?:.*?)(\s*SELECT\s+(?:.|\s)+)$/is; with the s flag (?:.|\s) is any character
LastSelectPattern ==
  <<LazyStar(<<AnyCh>>),
    Grp(1, <<Ws0>> \o ILit(Str(<<"SELECT">>)) \o <<Ws1, Plus(<<AnyCh>>)>>), Eol>>

\* s.replace(t, '') with a string t: the first occurrence of t goes
WithoutFirst(s, t) ==
  IF IndexOf(s, t) = 0 THEN s
  ELSE Sub(s, 1, IndexOf(s, t)) \o Sub(s, IndexOf(s, t) + Len(t), Len(s) + 1)

\* the WITH branch of restructureWithCte once the aggregate functions are known
AppendedCte(query, baseQuery, selectPart, aggregateFunctions) ==
  IF Len(aggregateFunctions) = 0 THEN query
  ELSE Trim(baseQuery)
       \o Str(<<",", "\n", "AggregatedData", " ", "AS", " ", "(", "\n", " ", " ">>)
       \o createAggregationCte(selectPart, aggregateFunctions)
       \o Str(<<"\n", ")", "\n", "SELECT", "\n", " ", " ">>)
       \o createSelectListWithAggregates(selectPart, aggregateFunctions)
       \o Str(<<"\n", "FROM", " ", "AggregatedData">>)

RestructureExisting(query, selectMatch) ==
  IF ~selectMatch.ok THEN query
  ELSE AppendedCte(query, WithoutFirst(query, Cap(query, selectMatch, 1)),
                   Cap(query, selectMatch, 1),
                   extractAggregateFunctions(Cap(query, selectMatch, 1)))

\* the branch of restructureWithCte for a query without WITH
WrappedInCte(query, aggregateFunctions) ==
  IF Len(aggregateFunctions) = 0 THEN query
  ELSE Str(<<"WITH", " ", "SourceData", " ", "AS", " ", "(", "\n", " ", " ">>)
       \o ReplaceFirst(<<Ch({";"}), Eol>>, query, "")
       \o Str(<<"\n", ")", ",", "\n", "AggregatedData", " ", "AS", " ", "(", "\n", " ", " ",
                "SELECT", " ", "\n", " ", " ", " ", " ">>)
       \o AggregateList(aggregateFunctions)
       \o Str(<<"\n", " ", " ", "FROM", " ", "SourceData", "\n", ")", "\n", "SELECT", "\n",
                " ", " ">>)
       \o createSelectListWithAggregates(query, aggregateFunctions)
       \o Str(<<"\n", "FROM", " ", "AggregatedData", ";">>)

restructureWithCte(query) ==
  IF Test(WithPattern, query)
  THEN RestructureExisting(query, Exec(LastSelectPattern, query))
  ELSE WrappedInCte(query, extractAggregateFunctions(query))

\* the options of fixSqlQuery that a caller leaves out
DefaultFixOptions == [autoFixGroupBy |-> TRUE, useCteRestructuring |-> TRUE, verbose |-> TRUE]

\* { autoFixGroupBy: true, useCteRestructuring: true, verbose: true, ...options }
FixOptions(options) ==
  [f \in DOMAIN DefaultFixOptions |->
     IF f \in DOMAIN options THEN options[f] ELSE DefaultFixOptions[f]]

fixSqlQuery(sqlQuery, options) ==
  IF FixOptions(options).useCteRestructuring /\ hasGroupByAggregationIssue(sqlQuery)
  THEN restructureWithCte(sqlQuery)
  ELSE sqlQuery

---------------------------------------------------------------------------
(* derivedTableFixer.ts: fixDerivedTableScopeIssues.                       *)

\* /\bFROM\s+\(\s*(?:WITH\s+[\s\S]*?)?SELECT\b[\s\S]*?\)\s+(?:AS\s+)?(\w+)/gis
derivedTablePattern ==
  <<Bnd>> \o ILit(Str(<<"FROM">>)) \o <<Ws1, Ch({"("}), Ws0>>
  \o <<Opt(ILit(Str(<<"WITH">>)) \o <<Ws1, LazyStar(<<AnyCh>>)>>)>>
  \o ILit(Str(<<"SELECT">>)) \o <<Bnd, LazyStar(<<AnyCh>>), Ch({")"}), Ws1>>
  \o <<Opt(ILit(Str(<<"AS">>)) \o <<Ws1>>), Grp(1, <<Word1>>)>>

\* /\bWITH\s+(\w+)(?:\s*\([^)]*\))?\s+AS\s*\(\s*SELECT\b.*?\)/gis
ctePattern ==
  <<Bnd>> \o ILit(Str(<<"WITH">>)) \o <<Ws1, Grp(1, <<Word1>>)>>
  \o <<Opt(<<Ws0, Ch({"("}), Star(<<NCh({")"})>>), Ch({")"})>>), Ws1>>
  \o ILit(Str(<<"AS">>)) \o <<Ws0, Ch({"("}), Ws0>>
  \o ILit(Str(<<"SELECT">>)) \o <<Bnd, LazyStar(<<AnyCh>>), Ch({")"})>>

\* /\b<keyword>\s+([^\s,(]+)(?:\s+(?:AS\s+)?(\w+))?/gi for FROM and for JOIN
ReferencePattern(keyword) ==
  <<Bnd>> \o ILit(keyword) \o <<Ws1, Grp(1, <<Plus(<<NCh(SpaceCh \cup {",", "("})>>)>>)>>
  \o <<Opt(<<Ws1, Opt(ILit(Str(<<"AS">>)) \o <<Ws1>>), Grp(2, <<Word1>>)>>)>>

\* the texts of list, each once, in the order of their first place: what a Set
\* that they are added to holds
Distinct(list) ==
  SelectSeq([k \in 1..Len(list) |-> [at |-> k, text |-> list[k]]],
            LAMBDA e : \A j \in 1..(e.at - 1) : list[j] # e.text)

\* match[1].replace(/[\[\]]/g, '') for each match of the pattern
ReferencesOf(sqlQuery, matches) ==
  [k \in 1..Len(matches) |-> StripBrackets(Cap(sqlQuery, matches[k], 1))]

TextsOf(entries) == [k \in 1..Len(entries) |-> entries[k].text]

findTableReferences(sqlQuery) ==
  TextsOf(Distinct(ReferencesOf(sqlQuery, All(ReferencePattern(Str(<<"FROM">>)), sqlQuery))
                   \o ReferencesOf(sqlQuery, All(ReferencePattern(Str(<<"JOIN">>)), sqlQuery))))

\* s.indexOf(t, from) with 0-based from and result, -1 when t is not there
JsIndexOfFrom(s, t, from) == IndexOfFrom(s, t, Clamp(from, Len(s)) + 1) - 1

\* the entry pushed for a match of derivedTablePattern: the subquery is what
\* follows the first parenthesis of the match, up to its closing parenthesis
DerivedTableOf(sqlQuery, match, subquery) ==
  [alias |-> Cap(sqlQuery, match, 1),
   tableReferences |-> findTableReferences(subquery),
   fullMatch |-> Whole(sqlQuery, match),
   subquery |-> subquery,
   startPos |-> match.b - 1,
   endPos |-> match.e - 1]

SubqueryOf(fullMatch) ==
  extractBalancedSubstring(JsSubstring(fullMatch, JsIndexOfFrom(fullMatch, <<"(">>, 0) + 1,
                                       Len(fullMatch)))

\* the content of a match of ctePattern: what follows the first parenthesis at
\* or after ' AS '
CteContentOf(fullMatch) ==
  extractBalancedSubstring(
    JsSubstring(fullMatch,
                JsIndexOfFrom(fullMatch, <<"(">>,
                              JsIndexOfFrom(ToUpper(fullMatch), Str(<<" ", "AS", " ">>), 0)) + 1,
                Len(fullMatch)))

DerivedTablesOf(sqlQuery, matches) ==
  [k \in 1..Len(matches) |->
     DerivedTableOf(sqlQuery, matches[k], SubqueryOf(Whole(sqlQuery, matches[k])))]

CtesOf(sqlQuery, matches) ==
  [k \in 1..Len(matches) |->
     DerivedTableOf(sqlQuery, matches[k], CteContentOf(Whole(sqlQuery, matches[k])))]

\* derivedTables after the two while loops
CollectedTables(sqlQuery) ==
  DerivedTablesOf(sqlQuery, All(derivedTablePattern, sqlQuery))
  \o CtesOf(sqlQuery, All(ctePattern, sqlQuery))

\* the tableReferences of the entries of derivedTables, one after the other
ReferencesOfAll(tables) ==
  LET f[k \in 0..Len(tables)] ==
        IF k = 0 THEN <<>> ELSE f[k - 1] \o tables[k].tableReferences
  IN f[Len(tables)]

\* the entries that the i-th one refers to: another alias that its subquery holds
ReferencedBy(derivedTables, i) ==
  SelectSeq(derivedTables,
            LAMBDA dt : dt.alias # derivedTables[i].alias
                        /\ Includes(derivedTables[i].subquery, dt.alias))

\* derivedTables with the references of the entries the i-th one refers to
\* added to the references of the i-th one
WithNestedReferences(derivedTables, i) ==
  [derivedTables EXCEPT
     ![i].tableReferences = @ \o ReferencesOfAll(ReferencedBy(derivedTables, i))]

\* the loop over derivedTables that adds the references of referenced entries
RECURSIVE NestedFrom(_, _)
NestedFrom(derivedTables, i) ==
  IF i > Len(derivedTables) THEN derivedTables
  ELSE NestedFrom(WithNestedReferences(derivedTables, i), i + 1)

\* new RegExp(source, flags), for a source made of word characters, dots,
\* brackets, closing parentheses and characters that stand for themselves:
\* [ok, nodes] or the SyntaxError thrown as [ok, reason]
SelfStanding == {"-", "#", "@", ":", ";", "'", "=", "<", ">", "!", "%", "&", "~", "/", Backtick}

\* one character of the source as a pattern, with the i flag or without
Literal(ch, ignoreCase) == IF ignoreCase THEN Ch({Lo(ch), Up(ch)}) ELSE Ch({ch})

\* the characters of the class that opens at source[at - 1] and closes at source[to]
ClassChars(source, at, to, ignoreCase) ==
  UNION {IF ignoreCase THEN {Lo(source[p]), Up(source[p])} ELSE {source[p]} : p \in at..(to - 1)}

RECURSIVE CompileFrom(_, _, _, _)
CompileFrom(source, at, ignoreCase, nodes) ==
  CASE at > Len(source) -> [ok |-> TRUE, nodes |-> nodes]
    [] at <= Len(source) /\ source[at] \in WordCh \cup SelfStanding \cup {"]"} ->
         CompileFrom(source, at + 1, ignoreCase, nodes \o <<Literal(source[at], ignoreCase)>>)
    [] at <= Len(source) /\ source[at] = "." ->
         CompileFrom(source, at + 1, ignoreCase, nodes \o <<Dot>>)
    [] at <= Len(source) /\ source[at] = ")" ->
         [ok |-> FALSE, reason |-> Str(<<"Unmatched", " ", "'", ")", "'">>)]
    [] at <= Len(source) /\ source[at] = "[" /\ IndexOfFrom(source, <<"]">>, at + 1) = 0 ->
         [ok |-> FALSE, reason |-> Str(<<"Unterminated", " ", "character", " ", "class">>)]
    [] at <= Len(source) /\ source[at] = "[" /\ IndexOfFrom(source, <<"]">>, at + 1) # 0 ->
         CompileFrom(source, IndexOfFrom(source, <<"]">>, at + 1) + 1, ignoreCase,
                     nodes \o <<Ch(ClassChars(source, at + 1,
                                              IndexOfFrom(source, <<"]">>, at + 1),
                                              ignoreCase))>>)

\* the Error object that new RegExp throws for the source and the reason
SyntaxErrorOf(source, reason) ==
  [message |-> Str(<<"Invalid", " ", "regular", " ", "expression", ":", " ", "/">>) \o source
               \o Str(<<"/", ":", " ">>) \o reason]

\* `\b${table}\.([\w\[\]]+)\b`, the source around the table name
ReferenceSource(table) ==
  Str(<<"\\", "b">>) \o table
  \o Str(<<"\\", ".", "(", "[", "\\", "w", "\\", "[", "\\", "]", "]", "+", ")", "\\", "b">>)

\* new RegExp(`\b${table}\.([\w\[\]]+)\b`, 'gi')
ReferenceRegExpWith(table, compiled) ==
  IF compiled.ok
  THEN [ok |-> TRUE,
        nodes |-> <<Bnd>> \o compiled.nodes
                  \o <<Ch({"."}), Grp(1, <<Plus(<<Ch(WordCh \cup {"[", "]"})>>)>>), Bnd>>]
  ELSE [ok |-> FALSE, error |-> SyntaxErrorOf(ReferenceSource(table), compiled.reason)]

ReferenceRegExp(table) == ReferenceRegExpWith(table, CompileFrom(table, 1, TRUE, <<>>))

\* `\b${table}\.${columnName}\b`
ColumnSource(table, columnName) ==
  Str(<<"\\", "b">>) \o table \o Str(<<"\\", ".">>) \o columnName \o Str(<<"\\", "b">>)

\* the characters of the source after `\b`, of which "\\b" at the end is an
\* assertion outside a class and inside an open class leaves it unterminated
ColumnRegExpWith(table, columnName, compiledTable, compiledColumn) ==
  CASE ~compiledTable.ok ->
         [ok |-> FALSE,
          error |-> SyntaxErrorOf(ColumnSource(table, columnName), compiledTable.reason)]
    [] compiledTable.ok /\ ~compiledColumn.ok ->
         [ok |-> FALSE,
          error |-> SyntaxErrorOf(ColumnSource(table, columnName), compiledColumn.reason)]
    [] OTHER ->
         [ok |-> TRUE,
          nodes |-> <<Bnd>> \o compiledTable.nodes \o <<Ch({"."})>> \o compiledColumn.nodes
                    \o <<Bnd>>]

\* new RegExp(`\b${table}\.${columnName}\b`, 'g')
ColumnRegExp(table, columnName) ==
  ColumnRegExpWith(table, columnName, CompileFrom(table, 1, FALSE, <<>>),
                   CompileFrom(columnName, 1, FALSE, <<>>))

\* s.replace(re, text) with the g flag and a text without $
TextFor(s, ms, text) == IF Len(ms) = 0 THEN s ELSE Splice(s, ms, [k \in 1..Len(ms) |-> text])

ReplaceAllBy(re, s, text) == TextFor(s, All(re, s), text)

\* the text `${a} -> ${b}` behind the words of a warning
Arrow(words, a, b) == words \o a \o Str(<<" ", "-", ">", " ">>) \o b

\* the state of the function: let fixedQuery, const warnings, and the error
\* thrown (Null while none is)
ScopeStart(sqlQuery) == [fixedQuery |-> sqlQuery, warnings |-> <<>>, error |-> Null]

ThrowIn(st, err) == [st EXCEPT !.error = err]

\* the body of the while loop over refMatch, lines 123-134, with the RegExp that
\* it makes
FixReferenceWith(st, alias, originalReference, columnName, regExp) ==
  IF ~regExp.ok
  THEN ThrowIn([st EXCEPT !.warnings =
                  @ \o <<Arrow(Str(<<"Fixed", " ", "table", " ", "reference", ":", " ">>),
                               originalReference, alias \o <<".">> \o columnName)>>],
               regExp.error)
  ELSE [st EXCEPT !.warnings =
                    @ \o <<Arrow(Str(<<"Fixed", " ", "table", " ", "reference", ":", " ">>),
                                 originalReference, alias \o <<".">> \o columnName)>>,
                  !.fixedQuery =
                    ReplaceAllBy(regExp.nodes, @, alias \o <<".">> \o columnName)]

FixReference(st, alias, table, context, refMatch) ==
  FixReferenceWith(st, alias, Whole(context, refMatch), Cap(context, refMatch, 1),
                   ColumnRegExp(table, Cap(context, refMatch, 1)))

\* the while loop over the matches of incorrectReferencePattern on the context
RECURSIVE FixReferences(_, _, _, _, _, _)
FixReferences(st, alias, table, context, matches, k) ==
  CASE st.error # Null \/ k > Len(matches) -> st
    [] OTHER -> FixReferences(FixReference(st, alias, table, context, matches[k]),
                              alias, table, context, matches, k + 1)

\* the body of the loop over tables, lines 114-136, with the RegExp that it makes
FixTableWith(st, alias, table, context, regExp) ==
  IF ~regExp.ok THEN ThrowIn(st, regExp.error)
  ELSE FixReferences(st, alias, table, context, All(regExp.nodes, context), 1)

RECURSIVE FixTables(_, _, _, _, _)
FixTables(st, alias, tables, context, k) ==
  CASE st.error # Null \/ k > Len(tables) -> st
    [] OTHER -> FixTables(FixTableWith(st, alias, tables[k], context,
                                       ReferenceRegExp(tables[k])),
                          alias, tables, context, k + 1)

\* the body of the loop over derivedTables, lines 101-137
FixOuterReferences(st, sqlQuery, derivedTable) ==
  IF Len(derivedTable.alias) = 0 \/ Len(derivedTable.tableReferences) = 0 THEN st
  ELSE FixTables(st, derivedTable.alias, derivedTable.tableReferences,
                 JsSubstring(sqlQuery, derivedTable.endPos, Len(sqlQuery)), 1)

RECURSIVE FixAllOuterReferences(_, _, _, _)
FixAllOuterReferences(st, sqlQuery, derivedTables, k) ==
  CASE st.error # Null \/ k > Len(derivedTables) -> st
    [] OTHER -> FixAllOuterReferences(FixOuterReferences(st, sqlQuery, derivedTables[k]),
                                      sqlQuery, derivedTables, k + 1)

\* s.replace(t, by) with a string t: the first occurrence of t becomes by
ReplaceText(s, t, by) ==
  IF IndexOf(s, t) = 0 THEN s
  ELSE Sub(s, 1, IndexOf(s, t)) \o by \o Sub(s, IndexOf(s, t) + Len(t), Len(s) + 1)

\* (?:$|WHERE|HAVING|ORDER|UNION|;)
GroupByEnd ==
  Alt(<< <<Eol>>, ILit(Str(<<"WHERE">>)), ILit(Str(<<"HAVING">>)), ILit(Str(<<"ORDER">>)),
         ILit(Str(<<"UNION">>)), <<Ch({";"})>> >>)

\* GROUP\s+BY\s+
GroupByStart == ILit(Str(<<"GROUP">>)) \o <<Ws1>> \o ILit(Str(<<"BY">>)) \o <<Ws1>>

\* /GROUP\s+BY\s+([^,]+)(?:,\s*([^,]+))*?(?:$|WHERE|HAVING|ORDER|UNION|;)/gis
groupByPattern ==
  GroupByStart
  \o <<Grp(1, <<Plus(<<NCh({","})>>)>>),
       Rep(<<Ch({","}), Ws0, Grp(2, <<Plus(<<NCh({","})>>)>>)>>, 0, -1, TRUE),
       GroupByEnd>>

\* /PARTITION\s+BY\s+([^)]+)/gi
partitionByPattern ==
  ILit(Str(<<"PARTITION">>)) \o <<Ws1>> \o ILit(Str(<<"BY">>))
  \o <<Ws1, Grp(1, <<Plus(<<NCh({")"})>>)>>)>>

\* \[?(\w+)\]?\.\[?(\w+)\]? with the groups a and b
BracketedReference(a, b) ==
  <<Opt(<<Ch({"["})>>), Grp(a, <<Word1>>), Opt(<<Ch({"]"})>>), Ch({"."}),
    Opt(<<Ch({"["})>>), Grp(b, <<Word1>>), Opt(<<Ch({"]"})>>)>>

\* /GROUP\s+BY\s+(?:\[?(\w+)\]?\.\[?(\w+)\]?)(?:,\s*(?:\[?(\w+)\]?\.\[?(\w+)\]?))*?
\*  (?:$|WHERE|HAVING|ORDER|UNION|;)/gis
enhancedGroupByPattern ==
  GroupByStart \o BracketedReference(1, 2)
  \o <<Rep(<<Ch({","}), Ws0>> \o BracketedReference(3, 4), 0, -1, TRUE), GroupByEnd>>

\* GROUP\s+BY and ORDER\s+BY
TwoWords(a, b) == ILit(a) \o <<Ws1>> \o ILit(b)

\* /WHERE\s+([^;)]+?)(?:GROUP\s+BY|ORDER\s+BY|HAVING|;|\))/gis
whereClausePattern ==
  ILit(Str(<<"WHERE">>))
  \o <<Ws1, Grp(1, <<LazyPlus(<<NCh({";", ")"})>>)>>),
       Alt(<<TwoWords(Str(<<"GROUP">>), Str(<<"BY">>)), TwoWords(Str(<<"ORDER">>), Str(<<"BY">>)),
             ILit(Str(<<"HAVING">>)), <<Ch({";"})>>, <<Ch({")"})>> >>)>>

\* /\bJOIN\s+[^\s]+(?:\s+(?:AS\s+)?(\w+))?\s+ON\s+([^)]+?)
\*  (?:WHERE|GROUP\s+BY|ORDER\s+BY|LEFT|RIGHT|INNER|OUTER|JOIN|;|\))/gis
joinOnPattern ==
  <<Bnd>> \o ILit(Str(<<"JOIN">>))
  \o <<Ws1, Plus(<<NCh(SpaceCh)>>),
       Opt(<<Ws1, Opt(ILit(Str(<<"AS">>)) \o <<Ws1>>), Grp(1, <<Word1>>)>>), Ws1>>
  \o ILit(Str(<<"ON">>))
  \o <<Ws1, Grp(2, <<LazyPlus(<<NCh({")"})>>)>>),
       Alt(<<ILit(Str(<<"WHERE">>)), TwoWords(Str(<<"GROUP">>), Str(<<"BY">>)),
             TwoWords(Str(<<"ORDER">>), Str(<<"BY">>)), ILit(Str(<<"LEFT">>)),
             ILit(Str(<<"RIGHT">>)), ILit(Str(<<"INNER">>)), ILit(Str(<<"OUTER">>)),
             ILit(Str(<<"JOIN">>)), <<Ch({";"})>>, <<Ch({")"})>> >>)>>

\* the four loops over derivedTables that rewrite the clauses of one kind: the
\* pattern of the kind and the words of its warning
ClausePattern(kind) ==
  CASE kind = "GROUP BY" -> groupByPattern
    [] kind = "PARTITION BY" -> partitionByPattern
    [] kind = "WHERE" -> whereClausePattern
    [] kind = "JOIN" -> joinOnPattern

ClauseWords(kind) ==
  CASE kind = "GROUP BY" ->
         Str(<<"Fixed", " ", "table", " ", "reference", " ", "in", " ", "GROUP", " ", "BY",
               ":", " ">>)
    [] kind = "PARTITION BY" ->
         Str(<<"Fixed", " ", "table", " ", "reference", " ", "in", " ", "PARTITION", " ", "BY",
               ":", " ">>)
    [] kind = "WHERE" ->
         Str(<<"Fixed", " ", "table", " ", "reference", " ", "in", " ", "WHERE", " ", "clause",
               ":", " ">>)
    [] kind = "JOIN" ->
         Str(<<"Fixed", " ", "table", " ", "reference", " ", "in", " ", "JOIN", " ",
               "condition", ":", " ">>)

\* s.indexOf(t), 0-based, -1 when t is not there
JsIndexOf(s, t) == IndexOf(s, t) - 1

\* whether the reference is replaced: in WHERE if the reference, in JOIN if the
\* clause, is first found in sqlQuery after the derived table
InOuterScope(kind, sqlQuery, derivedTable, clause, originalRef) ==
  CASE kind = "WHERE" -> JsIndexOf(sqlQuery, originalRef) > derivedTable.endPos
    [] kind = "JOIN" -> JsIndexOf(sqlQuery, clause) > derivedTable.endPos
    [] OTHER -> TRUE

\* the state of the work on one clause: let modifiedClause, and warnings, error
\* of the function
FixColumn(cs, kind, sqlQuery, derivedTable, clause, originalRef, columnName) ==
  IF ~InOuterScope(kind, sqlQuery, derivedTable, clause, originalRef) THEN cs
  ELSE [cs EXCEPT
          !.warnings = @ \o <<Arrow(ClauseWords(kind), originalRef,
                                    derivedTable.alias \o <<".">> \o columnName)>>,
          !.modifiedClause = ReplaceText(@, originalRef,
                                         derivedTable.alias \o <<".">> \o columnName)]

\* the while loop over colMatch
RECURSIVE FixColumns(_, _, _, _, _, _, _)
FixColumns(cs, kind, sqlQuery, derivedTable, clause, matches, k) ==
  IF k > Len(matches) THEN cs
  ELSE FixColumns(FixColumn(cs, kind, sqlQuery, derivedTable, clause,
                            Whole(clause, matches[k]), Cap(clause, matches[k], 1)),
                  kind, sqlQuery, derivedTable, clause, matches, k + 1)

ClauseTableWith(cs, kind, sqlQuery, derivedTable, clause, regExp) ==
  IF ~regExp.ok THEN ThrowIn(cs, regExp.error)
  ELSE FixColumns(cs, kind, sqlQuery, derivedTable, clause, All(regExp.nodes, clause), 1)

\* the loop over derivedTable.tableReferences for one clause
RECURSIVE ClauseTables(_, _, _, _, _, _)
ClauseTables(cs, kind, sqlQuery, derivedTable, clause, k) ==
  CASE cs.error # Null \/ k > Len(derivedTable.tableReferences) -> cs
    [] OTHER ->
         ClauseTables(ClauseTableWith(cs, kind, sqlQuery, derivedTable, clause,
                                      ReferenceRegExp(derivedTable.tableReferences[k])),
                      kind, sqlQuery, derivedTable, clause, k + 1)

\* the function's state after the clause has been worked on
AfterClause(st, clause, cs) ==
  [fixedQuery |-> IF cs.modifiedClause # clause
                  THEN ReplaceText(st.fixedQuery, clause, cs.modifiedClause)
                  ELSE st.fixedQuery,
   warnings |-> cs.warnings,
   error |-> cs.error]

\* the body of the while loop over the matches of the clause pattern
FixClause(st, kind, sqlQuery, derivedTable, clause) ==
  AfterClause(st, clause,
              ClauseTables([modifiedClause |-> clause, warnings |-> st.warnings,
                            error |-> st.error],
                           kind, sqlQuery, derivedTable, clause, 1))

\* the while loop: the pattern has the g flag, so each exec starts at the
\* lastIndex (0-based) that the exec before it left, on fixedQuery as it is now
RECURSIVE FixClausesFrom(_, _, _, _, _)
FixClausesWith(st, kind, sqlQuery, derivedTable, match) ==
  IF ~match.ok THEN st
  ELSE FixClausesFrom(FixClause(st, kind, sqlQuery, derivedTable, Whole(st.fixedQuery, match)),
                      kind, sqlQuery, derivedTable, match.e - 1)

FixClausesFrom(st, kind, sqlQuery, derivedTable, lastIndex) ==
  IF st.error # Null THEN st
  ELSE FixClausesWith(st, kind, sqlQuery, derivedTable,
                      ExecFrom(ClausePattern(kind), st.fixedQuery, lastIndex + 1))

\* the loop over derivedTables of one kind; each while loop ends with lastIndex 0
RECURSIVE FixClauses(_, _, _, _, _)
FixClauses(st, kind, sqlQuery, derivedTables, k) ==
  CASE st.error # Null \/ k > Len(derivedTables) -> st
    [] OTHER -> FixClauses(FixClausesFrom(st, kind, sqlQuery, derivedTables[k], 0),
                           kind, sqlQuery, derivedTables, k + 1)

\* new RegExp(originalRef.replace(/[[\]]/g, '\\$&'), 'gi'): the brackets of the
\* reference stand for themselves, its dot for any character
EscapedNode(ch) == IF ch = "." THEN Dot ELSE Literal(ch, TRUE)

EscapedRegExp(originalRef) == [k \in 1..Len(originalRef) |-> EscapedNode(originalRef[k])]

\* correctedRef of the enhanced GROUP BY fix
CorrectedRef(derivedTable, originalRef, tableName, columnName) ==
  IF Includes(originalRef, <<"[">> \o tableName \o <<"]">>)
     \/ Includes(originalRef, <<"[">> \o columnName \o <<"]">>)
  THEN derivedTable.alias \o <<".", "[">> \o columnName \o <<"]">>
  ELSE derivedTable.alias \o <<".">> \o columnName

\* derivedTable.tableReferences.includes(tableName)
HasReference(derivedTable, tableName) ==
  \E k \in 1..Len(derivedTable.tableReferences) : derivedTable.tableReferences[k] = tableName

\* the body of the loop over derivedTables for one column of the clause
FixDynamic(cs, derivedTable, originalRef, tableName, columnName) ==
  IF ~HasReference(derivedTable, tableName) THEN cs
  ELSE [cs EXCEPT
          !.warnings =
            @ \o <<Arrow(Str(<<"Fixed", " ", "dynamic", " ", "table", " ", "reference", " ",
                               "in", " ", "GROUP", " ", "BY", ":", " ">>),
                         originalRef,
                         CorrectedRef(derivedTable, originalRef, tableName, columnName))>>,
          !.modifiedClause =
            ReplaceAllBy(EscapedRegExp(originalRef), @,
                         CorrectedRef(derivedTable, originalRef, tableName, columnName))]

RECURSIVE FixDynamicIn(_, _, _, _, _, _)
FixDynamicIn(cs, derivedTables, originalRef, tableName, columnName, k) ==
  IF k > Len(derivedTables) THEN cs
  ELSE FixDynamicIn(FixDynamic(cs, derivedTables[k], originalRef, tableName, columnName),
                    derivedTables, originalRef, tableName, columnName, k + 1)

\* the body of the loop over groupByColumns, with columnRef.match(...)
FixGroupByColumn(cs, derivedTables, columnRef, tableColMatch) ==
  IF ~tableColMatch.ok THEN cs
  ELSE FixDynamicIn(cs, derivedTables, columnRef, Cap(columnRef, tableColMatch, 1),
                    Cap(columnRef, tableColMatch, 2), 1)

RECURSIVE FixGroupByColumns(_, _, _, _, _)
FixGroupByColumns(cs, derivedTables, clause, matches, k) ==
  IF k > Len(matches) THEN cs
  ELSE FixGroupByColumns(FixGroupByColumn(cs, derivedTables, Whole(clause, matches[k]),
                                          Exec(BracketedReference(1, 2),
                                               Whole(clause, matches[k]))),
                         derivedTables, clause, matches, k + 1)

\* the body of the while loop over gbMatch
FixEnhancedClause(st, derivedTables, clause) ==
  AfterClause(st, clause,
              FixGroupByColumns([modifiedClause |-> clause, warnings |-> st.warnings,
                                 error |-> st.error],
                                derivedTables, clause, All(BracketedReference(1, 2), clause), 1))

\* the while loop over gbMatch, from the lastIndex that the exec before left
RECURSIVE FixEnhancedFrom(_, _, _)
FixEnhancedWith(st, derivedTables, match) ==
  IF ~match.ok THEN st
  ELSE FixEnhancedFrom(FixEnhancedClause(st, derivedTables, Whole(st.fixedQuery, match)),
                       derivedTables, match.e - 1)

FixEnhancedFrom(st, derivedTables, lastIndex) ==
  IF st.error # Null THEN st
  ELSE FixEnhancedWith(st, derivedTables,
                       ExecFrom(enhancedGroupByPattern, st.fixedQuery, lastIndex + 1))

\* the function from the loop over derivedTables of line 101 on, pass by pass
ScopePass(st, sqlQuery, derivedTables, pass) ==
  CASE st.error # Null -> st
    [] st.error = Null /\ pass = 1 -> FixAllOuterReferences(st, sqlQuery, derivedTables, 1)
    [] st.error = Null /\ pass = 2 -> FixClauses(st, "GROUP BY", sqlQuery, derivedTables, 1)
    [] st.error = Null /\ pass = 3 -> FixClauses(st, "PARTITION BY", sqlQuery, derivedTables, 1)
    [] st.error = Null /\ pass = 4 -> FixEnhancedFrom(st, derivedTables, 0)
    [] st.error = Null /\ pass = 5 -> FixClauses(st, "WHERE", sqlQuery, derivedTables, 1)
    [] st.error = Null /\ pass = 6 -> FixClauses(st, "JOIN", sqlQuery, derivedTables, 1)

RECURSIVE ScopePasses(_, _, _, _)
ScopePasses(st, sqlQuery, derivedTables, pass) ==
  IF pass > 6 THEN st
  ELSE ScopePasses(ScopePass(st, sqlQuery, derivedTables, pass), sqlQuery, derivedTables,
                   pass + 1)

\* what a call of the function gives: [fixedQuery, warnings] returned, or
\* [error] thrown
ScopeResult(st) ==
  IF st.error # Null THEN [thrown |-> TRUE, error |-> st.error]
  ELSE [thrown |-> FALSE, fixedQuery |-> st.fixedQuery, warnings |-> st.warnings]

fixDerivedTableScopeIssues(sqlQuery) ==
  IF Len(sqlQuery) = 0 THEN [thrown |-> FALSE, fixedQuery |-> sqlQuery, warnings |-> <<>>]
  ELSE ScopeResult(ScopePasses(ScopeStart(sqlQuery), sqlQuery,
                               NestedFrom(CollectedTables(sqlQuery), 1), 1))

\* /FROM\s+\(\s*SELECT[\s\S]*?\)\s+AS\s+(\w+)[\s\S]*?GROUP\s+BY/i
ScopeIssuePattern ==
  ILit(Str(<<"FROM">>)) \o <<Ws1, Ch({"("}), Ws0>> \o ILit(Str(<<"SELECT">>))
  \o <<LazyStar(<<AnyCh>>), Ch({")"}), Ws1>> \o ILit(Str(<<"AS">>))
  \o <<Ws1, Grp(1, <<Word1>>), LazyStar(<<AnyCh>>)>>
  \o TwoWords(Str(<<"GROUP">>), Str(<<"BY">>))

\* the warning pushed before the fixes, if the pattern is found
DetectedWarning(sqlQuery) ==
  IF Test(ScopeIssuePattern, sqlQuery)
  THEN <<Str(<<"Detected", " ", "potential", " ", "derived", " ", "table", " ", "scope", " ",
               "issues", ",", " ", "applying", " ", "scope", " ", "binding", " ", "fixes">>)>>
  ELSE <<>>

\* `Error fixing derived table scope issues: ${error.message}`
ScopeErrorWarning(err) ==
  Str(<<"Error", " ", "fixing", " ", "derived", " ", "table", " ", "scope", " ", "issues", ":",
        " ">>) \o err.message

\* the function with a catch block that keeps the warnings of the try block
ValidateWithWarningsKept(sqlQuery, detected, result) ==
  IF result.thrown
  THEN [isValid |-> FALSE, fixedQuery |-> sqlQuery,
        warnings |-> detected \o <<ScopeErrorWarning(result.error)>>]
  ELSE [isValid |-> TRUE, fixedQuery |-> result.fixedQuery,
        warnings |-> detected \o result.warnings]

\* the try block with what fixDerivedTableScopeIssues gave, and the catch block
ValidateWith(sqlQuery, detected, result) ==
  IF result.thrown
  THEN [isValid |-> FALSE, fixedQuery |-> sqlQuery,
        warnings |-> <<ScopeErrorWarning(result.error)>>]
  ELSE [isValid |-> TRUE, fixedQuery |-> result.fixedQuery,
        warnings |-> detected \o result.warnings]

validateAndFixDerivedTableIssues(sqlQuery) ==
  ValidateWith(sqlQuery, DetectedWarning(sqlQuery), fixDerivedTableScopeIssues(sqlQuery))

---------------------------------------------------------------------------
(* sqlServerSyntaxFixer: fixSQLServerSyntaxIssues, findSubqueries,         *)
(* findOrderByContexts.                                                    *)

\* \d+
Digits1 == Plus(<<Ch(DigitCh)>>)

\* /\/\*\s*SELECT\s+TOP\s+\d+\s+converted\s*\*\//gi
CommentedTopPattern ==
  Lit(<<"/", "*">>) \o <<Ws0>> \o ILit(Str(<<"SELECT">>)) \o <<Ws1>> \o ILit(Str(<<"TOP">>))
  \o <<Ws1, Digits1, Ws1>> \o ILit(Str(<<"converted">>)) \o <<Ws0>> \o Lit(<<"*", "/">>)

\* /\s*SELECT/i
SubqueryOpening == <<Ws0>> \o ILit(Str(<<"SELECT">>))

\* the variables of findSubqueries ahead of its loop; start is a 1-based
\* position, 0 for none
SubqueryScanStart == [depth |-> 0, start |-> 0, inSubquery |-> FALSE, subqueries |-> <<>>]

\* the parenthesis at p closes the subquery that began at st.start
SubqueryClosed(sql, st, p) ==
  [depth |-> 0, start |-> st.start, inSubquery |-> FALSE,
   subqueries |-> Append(st.subqueries, JsSubstring(sql, st.start - 1, p))]

\* the body of the loop of findSubqueries for the character at p
SubqueryStep(sql, st, p) ==
  CASE sql[p] = "(" /\ Test(SubqueryOpening, JsSubstring(sql, p, p + 7)) ->
         [depth |-> st.depth + 1,
          start |-> IF st.depth = 0 THEN p ELSE st.start,
          inSubquery |-> st.depth = 0 \/ st.inSubquery,
          subqueries |-> st.subqueries]
    [] sql[p] = "(" /\ ~Test(SubqueryOpening, JsSubstring(sql, p, p + 7)) ->
         [st EXCEPT !.depth = @ + 1]
    [] sql[p] = ")" ->
         IF st.depth = 1 /\ st.inSubquery THEN SubqueryClosed(sql, st, p)
         ELSE [st EXCEPT !.depth = @ - 1]
    [] OTHER -> st

\* the positions of sql where the body of the loop does anything: those of its
\* parentheses, in order
Parentheses(sql) == SelectSeq([p \in 1..Len(sql) |-> p], LAMBDA p : sql[p] \in {"(", ")"})

\* the variables of findSubqueries when the loop has passed the k-th parenthesis
RECURSIVE SubqueryScan(_, _, _)
SubqueryScan(sql, parens, k) ==
  IF k = 0 THEN SubqueryScanStart
  ELSE SubqueryStep(sql, SubqueryScan(sql, parens, k - 1), parens[k])

findSubqueries(sql) == SubqueryScan(sql, Parentheses(sql), Len(Parentheses(sql))).subqueries

\* /\bTOP\s+\d+/i
TopCountPattern == <<Bnd>> \o ILit(Str(<<"TOP">>)) \o <<Ws1, Digits1>>

\* /\bOFFSET\b/i
OffsetWordPattern == <<Bnd>> \o ILit(Str(<<"OFFSET">>)) \o <<Bnd>>

\* /\bFOR\s+XML\b/i
ForXmlPattern == <<Bnd>> \o ILit(Str(<<"FOR">>)) \o <<Ws1>> \o ILit(Str(<<"XML">>)) \o <<Bnd>>

\* /\bSELECT\b(?!\s+TOP)/i
SelectWithoutTopPattern ==
  <<Bnd>> \o ILit(Str(<<"SELECT">>)) \o <<Bnd, NotAhead(<<Ws1>> \o ILit(Str(<<"TOP">>)))>>

\* the condition of Fix 2
NeedsTop(subquery) ==
  /\ Includes(subquery, Str(<<"ORDER", " ", "BY">>))
  /\ ~Test(TopCountPattern, subquery)
  /\ ~Test(OffsetWordPattern, subquery)
  /\ ~Test(ForXmlPattern, subquery)

\* s.replace(re, text) without the g flag and with a text without $
ReplaceFirstBy(re, s, text) == TextFor(s, AllWithin(Exec(re, s)), text)

\* the loop of Fix 2 from the k-th subquery on
RECURSIVE AddTops(_, _, _)
AddTops(fixedQuery, subqueries, k) ==
  CASE k > Len(subqueries) -> fixedQuery
    [] k <= Len(subqueries) /\ ~NeedsTop(subqueries[k]) -> AddTops(fixedQuery, subqueries, k + 1)
    [] k <= Len(subqueries) /\ NeedsTop(subqueries[k]) ->
         AddTops(ReplaceText(fixedQuery, subqueries[k],
                             ReplaceFirstBy(SelectWithoutTopPattern, subqueries[k],
                                            Str(<<"SELECT", " ", "TOP", " ", "100">>))),
                 subqueries, k + 1)

\* /\bSELECT\s+(?:DISTINCT\s+)?TOP\s+\d+/i
SelectTopPattern ==
  <<Bnd>> \o ILit(Str(<<"SELECT">>))
  \o <<Ws1, Opt(ILit(Str(<<"DISTINCT">>)) \o <<Ws1>>)>>
  \o ILit(Str(<<"TOP">>)) \o <<Ws1, Digits1>>

\* /\bOFFSET\s+\d+\s+ROWS\s+FETCH/i
OffsetFetchStartPattern ==
  <<Bnd>> \o ILit(Str(<<"OFFSET">>)) \o <<Ws1, Digits1, Ws1>> \o ILit(Str(<<"ROWS">>))
  \o <<Ws1>> \o ILit(Str(<<"FETCH">>))

\* the condition of Fix 3
HasTopAndOffset(subquery) ==
  Test(SelectTopPattern, subquery) /\ Test(OffsetFetchStartPattern, subquery)

\* what Fix 3 puts in the place of SELECT [DISTINCT] TOP n
SelectDistinct == Str(<<"SELECT", " ", "DISTINCT">>)

\* the loop of Fix 3 from the k-th subquery on
RECURSIVE DropTops(_, _, _)
DropTops(fixedQuery, subqueries, k) ==
  CASE k > Len(subqueries) -> fixedQuery
    [] k <= Len(subqueries) /\ ~HasTopAndOffset(subqueries[k]) ->
         DropTops(fixedQuery, subqueries, k + 1)
    [] k <= Len(subqueries) /\ HasTopAndOffset(subqueries[k]) ->
         DropTops(ReplaceText(fixedQuery, subqueries[k],
                              ReplaceFirstBy(SelectTopPattern, subqueries[k],
                                             SelectDistinct)),
                  subqueries, k + 1)

\* /SELECT(?:(?!SELECT).)*ORDER\s+BY[^;)]*?(?:;|\)|$)/gis
OrderByContextPattern ==
  ILit(Str(<<"SELECT">>)) \o <<Star(<<NotAhead(ILit(Str(<<"SELECT">>))), AnyCh>>)>>
  \o ILit(Str(<<"ORDER">>)) \o <<Ws1>> \o ILit(Str(<<"BY">>))
  \o <<LazyStar(<<NCh({";", ")"})>>), Alt(<< <<Ch({";"})>>, <<Ch({")"})>>, <<Eol>> >>)>>

\* the texts of the matches ms on s
WholesOf(s, ms) == [k \in 1..Len(ms) |-> Whole(s, ms[k])]

findOrderByContexts(sql) == WholesOf(sql, All(OrderByContextPattern, sql))

\* /SELECT\s+DISTINCT\s+(?!TOP)/i
DistinctWithoutTopPattern ==
  ILit(Str(<<"SELECT">>)) \o <<Ws1>> \o ILit(Str(<<"DISTINCT">>))
  \o <<Ws1, NotAhead(ILit(Str(<<"TOP">>)))>>

\* /\bORDER\s+BY\b/i
OrderByWordsPattern ==
  <<Bnd>> \o ILit(Str(<<"ORDER">>)) \o <<Ws1>> \o ILit(Str(<<"BY">>)) \o <<Bnd>>

\* the condition of Fix 4
NeedsDistinctTop(context) ==
  /\ Test(DistinctWithoutTopPattern, context)
  /\ ~Test(OffsetWordPattern, context)
  /\ Test(OrderByWordsPattern, context)

\* the loop of Fix 4 from the k-th context on
RECURSIVE AddDistinctTops(_, _, _)
AddDistinctTops(fixedQuery, contexts, k) ==
  CASE k > Len(contexts) -> fixedQuery
    [] k <= Len(contexts) /\ ~NeedsDistinctTop(contexts[k]) ->
         AddDistinctTops(fixedQuery, contexts, k + 1)
    [] k <= Len(contexts) /\ NeedsDistinctTop(contexts[k]) ->
         AddDistinctTops(ReplaceText(fixedQuery, contexts[k],
                                     ReplaceFirstBy(DistinctWithoutTopPattern, contexts[k],
                                                    Str(<<"SELECT", " ", "DISTINCT", " ", "TOP",
                                                          " ", "100", " ">>))),
                         contexts, k + 1)

\* /OFFSET\s+(\d+)\s+ROWS\s+FETCH\s+(?:NEXT|FIRST)\s+(\d+)\s+ROWS\s+ONLY/gi
OffsetFetchPattern ==
  ILit(Str(<<"OFFSET">>)) \o <<Ws1, Grp(1, <<Digits1>>), Ws1>> \o ILit(Str(<<"ROWS">>))
  \o <<Ws1>> \o ILit(Str(<<"FETCH">>))
  \o <<Ws1, Alt(<<ILit(Str(<<"NEXT">>)), ILit(Str(<<"FIRST">>))>>), Ws1, Grp(2, <<Digits1>>), Ws1>>
  \o ILit(Str(<<"ROWS">>)) \o <<Ws1>> \o ILit(Str(<<"ONLY">>))

\* 'OFFSET $1 ROWS FETCH NEXT $2 ROWS ONLY'
OffsetFetchNext(s, m) ==
  Str(<<"OFFSET", " ">>) \o Cap(s, m, 1)
  \o Str(<<" ", "ROWS", " ", "FETCH", " ", "NEXT", " ">>) \o Cap(s, m, 2)
  \o Str(<<" ", "ROWS", " ", "ONLY">>)

\* fixedQuery after Fix 1
CommentedTopFixed(sqlQuery) == ReplaceAllBy(CommentedTopPattern, sqlQuery, Str(<<"TOP", " ", "1">>))

\* fixedQuery after Fix 2, Fix 3 and Fix 4, each on what the fix before it left
TopsAdded(fixedQuery) == AddTops(fixedQuery, findSubqueries(fixedQuery), 1)

TopsDropped(fixedQuery) == DropTops(fixedQuery, findSubqueries(fixedQuery), 1)

DistinctTopsAdded(fixedQuery) == AddDistinctTops(fixedQuery, findOrderByContexts(fixedQuery), 1)

fixSQLServerSyntaxIssues(sqlQuery) ==
  IF Len(sqlQuery) = 0 THEN sqlQuery
  ELSE ReplaceAll(OffsetFetchPattern,
                  DistinctTopsAdded(TopsDropped(TopsAdded(CommentedTopFixed(sqlQuery)))),
                  "offset fetch next")

---------------------------------------------------------------------------
(* The second arguments of the replace calls of the fixers.                *)

Replacement(by, s, m) ==
  CASE by = "[$1]" -> <<"[">> \o Cap(s, m, 1) \o <<"]">>
    [] by = "top as comment" -> TopAsComment(Whole(s, m))
    [] by = "" -> <<>>
    [] by = "unwrap clause" -> UnwrapClause(s, m)
    [] by = "merge broken name" -> MergeBrokenName(s, m)
    [] by = "dotted join" -> DottedJoin(s, m)
    [] by = "alias out of brackets" -> AliasOutOfBrackets(s, m)
    [] by = "loose dotted join" -> LooseDottedJoin(s, m)
    [] by = "move keyword out" -> MoveKeywordOut(s, m)
    [] by = "bracket on" -> BracketOn(s, m)
    [] by = "bracket alias" -> BracketAlias(s, m)
    [] by = "offset fetch next" -> OffsetFetchNext(s, m)

---------------------------------------------------------------------------
(* dynamicSqlExecutor.ts: executeSql, one call.                            *)

\* the largest opts.maxRetries a caller passes
MaxRetriesBound == 2

\* appConfig.sql with no SQL_* variable in the environment
DefaultMaxRetries == 3

appConfigSql == [maxRetries |-> DefaultMaxRetries, throwOnFailure |-> TRUE]

\* the options objects of the callers: each field present or absent
OptionsSet ==
  {[f \in D |-> full[f]] :
     D \in SUBSET {"maxRetries", "throwOnFailure"},
     full \in [maxRetries : 0..MaxRetriesBound, throwOnFailure : BOOLEAN]}

\* { ...appConfig.sql, ...options }
MergeOptions(options) ==
  [f \in {"maxRetries", "throwOnFailure"} |->
     IF f \in DOMAIN options THEN options[f] ELSE appConfigSql[f]]

\* the queries handed to executeSql
QueryMixed ==
  Str(<<"SELECT", " ", "CustomerID", ",", " ", "SUM", "(", "Amount", ")", " ",
        "FROM", " ", "Orders">>)

QueryBackticks ==
  <<"S", "E", "L", "E", "C", "T", " ", Backtick, "i", "d", Backtick, " ">>
  \o Str(<<"FROM", " ", "o", ".", "t">>)

QueryPlain == Str(<<"SELECT", " ", "1">>)

Queries == {QueryMixed, QueryBackticks, QueryPlain}

\* the messages the database rejects a query with, by what they report
GroupByMessages ==
  {Str(<<"Column", " ", "'", "o", ".", "id", "'", " ", "is", " ", "invalid", " ", "in",
         " ", "the", " ", "select", " ", "list", " ", "because", " ", "it", " ", "is", " ",
         "not", " ", "contained", " ", "in", " ", "either", " ", "an", " ", "aggregate",
         " ", "function", " ", "or", " ", "the", " ", "GROUP", " ", "BY", " ", "clause",
         ".">>),
   Str(<<"column", " ", "id", " ", "must", " ", "appear", " ", "in", " ", "the", " ",
         "GROUP", " ", "BY", " ", "clause">>)}

SyntaxMessages ==
  {Str(<<"Incorrect", " ", "syntax", " ", "near", " ", "'", "FROM", "'", ".">>),
   Str(<<"syntax", " ", "error", " ", "at", " ", "or", " ", "near", " ", "FROM">>)}

\* a message of both classes
BothMessages ==
  {Str(<<"Incorrect", " ", "syntax", ":", " ", "column", " ", "id", " ", "must", " ",
         "appear", " ", "in", " ", "the", " ", "GROUP", " ", "BY", " ", "clause">>)}

\* messages of neither class
OtherMessages ==
  {Str(<<"Invalid", " ", "object", " ", "name", " ", "'", "Orders", "'", ".">>),
   Str(<<"Invalid", " ", "column", " ", "name", " ", "'", "id", "'", ".">>)}

Messages == GroupByMessages \cup SyntaxMessages \cup BothMessages \cup OtherMessages

\* a thrown value without a message
NoMessageError == [name |-> "Error"]

\* what executeQuery rejects with
Rejections == {[message |-> m] : m \in Messages} \cup {NoMessageError}

\* while (attempts < opts.maxRetries), with the bug of one attempt too many
LoopConditionOffByOne(a, mr) == a <= mr

\* while (attempts < opts.maxRetries)
LoopCondition(a, mr) == a < mr

\* the catch block with the syntax test before the GROUP BY test
HandleErrorSyntaxFirst(err) ==
  IF isSyntaxError(err) THEN [fixers |-> <<"cleanSqlQuery">>, break |-> FALSE]
  ELSE IF isGroupByError(err)
  THEN [fixers |-> <<"fixGroupByAggregationError">>, break |-> FALSE]
  ELSE [fixers |-> <<>>, break |-> TRUE]

\* the catch block without the break of its last branch
HandleErrorNoBreak(err) ==
  IF isGroupByError(err) THEN [fixers |-> <<"fixGroupByAggregationError">>, break |-> FALSE]
  ELSE IF isSyntaxError(err) THEN [fixers |-> <<"cleanSqlQuery">>, break |-> FALSE]
  ELSE [fixers |-> <<>>, break |-> FALSE]

\* the catch block: the fixers it applies, in order, and whether it leaves the loop
HandleError(err) ==
  IF isGroupByError(err) THEN [fixers |-> <<"fixGroupByAggregationError">>, break |-> FALSE]
  ELSE IF isSyntaxError(err) THEN [fixers |-> <<"cleanSqlQuery">>, break |-> FALSE]
  ELSE [fixers |-> <<>>, break |-> TRUE]

ApplyFixer(name, query) ==
  IF name = "fixGroupByAggregationError" THEN fixGroupByAggregationError(query)
  ELSE cleanSqlQuery(query)

\* one repair of the catch block, as a history event
FixEvent(name, query) ==
  [kind |-> "fix", fixer |-> name, before |-> query, after |-> ApplyFixer(name, query)]

\* the fixers of names applied to query one after the other, as history events
RECURSIVE FixEvents(_, _)
RECURSIVE FixEventsAfter(_, _)
FixEventsAfter(names, event) == <<event>> \o FixEvents(names, event.after)

FixEvents(names, query) ==
  IF Len(names) = 0 THEN <<>>
  ELSE FixEventsAfter(Tail(names), FixEvent(Head(names), query))

\* the statements after the loop, returning null whatever throwOnFailure says
SettleFailureNeverThrows(tof, err) == [kind |-> "return", value |-> Null]

\* if (opts.throwOnFailure && error) throw error; return null
SettleFailure(tof, err) ==
  IF tof /\ err # Null THEN [kind |-> "throw", error |-> err]
  ELSE [kind |-> "return", value |-> Null]

\* from the loop test on: the next executeQuery is issued, or the call settles
EnterLoop(a, q, err, h) ==
  IF LoopCondition(a, maxRetries')
  THEN /\ attempts' = a + 1
       /\ pc' = "await"
       /\ outcome' = Null
       /\ history' = Append(h, [kind |-> "exec", query |-> q, attempt |-> a + 1])
  ELSE /\ attempts' = a
       /\ pc' = "settled"
       /\ outcome' = SettleFailure(throwOnFailure', err)
       /\ history' = h

\* executeSql(sqlQuery, options) up to its first await, or to its end
Call(sqlQuery, options) ==
  /\ pc = "idle"
  /\ maxRetries' = MergeOptions(options).maxRetries
  /\ throwOnFailure' = MergeOptions(options).throwOnFailure
  /\ currentQuery' = sqlQuery
  /\ error' = Null
  /\ EnterLoop(0, sqlQuery, Null, <<[kind |-> "call", options |-> options]>>)
  /\ UNCHANGED fixerVars
  /\ UNCHANGED serviceVars

\* executeQuery resolves: return results
QuerySucceeds ==
  /\ pc = "await"
  /\ pc' = "settled"
  /\ outcome' = [kind |-> "return", value |-> [rowsOfAttempt |-> attempts]]
  /\ history' = Append(history, [kind |-> "ok", attempt |-> attempts])
  /\ UNCHANGED <<maxRetries, throwOnFailure, currentQuery, attempts, error>>
  /\ UNCHANGED fixerVars
  /\ UNCHANGED serviceVars

\* the error object of a rejection rej of attempt a
ErrorOf(rej, a) ==
  [f \in DOMAIN rej \cup {"thrownBy"} |-> IF f = "thrownBy" THEN a ELSE rej[f]]

\* currentQuery after the repairs fixes
QueryAfter(fixes, query) == IF Len(fixes) = 0 THEN query ELSE fixes[Len(fixes)].after

\* the catch block once its repairs are known, then the loop test or the settlement
CatchWith(err, break, fixes, hist) ==
  /\ error' = err
  /\ currentQuery' = QueryAfter(fixes, currentQuery)
  /\ UNCHANGED <<maxRetries, throwOnFailure>>
  /\ IF break
     THEN /\ attempts' = attempts
          /\ pc' = "settled"
          /\ outcome' = SettleFailure(throwOnFailure, err)
          /\ history' = hist \o fixes
     ELSE EnterLoop(attempts, QueryAfter(fixes, currentQuery), err, hist \o fixes)

\* catch (err): error = err, then the repair HandleError selects
Catch(err, h) ==
  CatchWith(err, h.break, FixEvents(h.fixers, currentQuery),
            Append(history, [kind |-> "fail", error |-> err, attempt |-> attempts]))

\* executeQuery rejects with a new error rej: the catch block, then the loop
QueryFails(rej) ==
  /\ pc = "await"
  /\ Catch(ErrorOf(rej, attempts), HandleError(ErrorOf(rej, attempts)))
  /\ UNCHANGED fixerVars
  /\ UNCHANGED serviceVars

Init ==
  /\ pc = "idle"
  /\ maxRetries = appConfigSql.maxRetries
  /\ throwOnFailure = appConfigSql.throwOnFailure
  /\ currentQuery = <<>>
  /\ attempts = 0
  /\ error = Null
  /\ outcome = Null
  /\ history = <<>>
  /\ input = <<>>
  /\ output = <<>>
  /\ stage = "none"
  /\ ServicesIdle

Next ==
  \/ \E q \in Queries, o \in OptionsSet : Call(q, o)
  \/ QuerySucceeds
  \/ \E rej \in Rejections : QueryFails(rej)

Spec == Init /\ [][Next]_vars

---------------------------------------------------------------------------
(* executeSql: properties of one call.                                     *)

\* the positions of the events of a kind in the history of the call
EventsOf(kind) == {k \in DOMAIN history : history[k].kind = kind}

\* how many times the call has called executeQuery
ExecCount == Cardinality(EventsOf("exec"))

\* the classes of a thrown value, by the message the database gave it
HasMessageIn(err, msgs) == "message" \in DOMAIN err /\ err.message \in msgs

IsGroupByClass(err) == HasMessageIn(err, GroupByMessages \cup BothMessages)

IsSyntaxClassOnly(err) == HasMessageIn(err, SyntaxMessages)

IsUnfixable(err) == "message" \notin DOMAIN err \/ err.message \in OtherMessages

\* C1: executeSql calls executeQuery at most maxRetries times per call (3 when
\* the options name no maxRetries): the attempt counter never exceeds
\* maxRetries, it counts the calls of executeQuery, and once maxRetries
\* round-trips have completed the call has settled.
C1_AtMostMaxRetriesAttempts ==
  /\ attempts <= maxRetries
  /\ ExecCount = attempts
  /\ pc = "await" => Cardinality(EventsOf("ok") \cup EventsOf("fail")) < maxRetries
  /\ pc \in {"await", "settled"} /\ "maxRetries" \notin DOMAIN history[1].options
       => ExecCount <= 3
  /\ pc = "settled" => Cardinality(EventsOf("ok") \cup EventsOf("fail")) = ExecCount

\* a call under the default budget that used all of it and failed
C1_Witness ==
  /\ pc = "settled"
  /\ "maxRetries" \notin DOMAIN history[1].options
  /\ ExecCount = 3
  /\ Cardinality(EventsOf("fail")) = 3

\* C2: an attempt that fails with an error of neither class ends the loop at
\* once: no fixer follows it, executeQuery is not called again, and the call
\* has settled, whatever attempts remain.
C2_UnfixableErrorEndsLoop ==
  \A k \in EventsOf("fail") :
    IsUnfixable(history[k].error) => k = Len(history) /\ pc = "settled"

\* an unfixable failure of the first attempt with two attempts left, one with
\* a message and one without
C2_Witness ==
  /\ pc = "settled"
  /\ maxRetries = 3
  /\ attempts = 1
  /\ history[Len(history)].kind = "fail"
  /\ IsUnfixable(history[Len(history)].error)

\* a set of queries with the repairs of each of them
WithRepairs(qs) ==
  qs \cup {fixGroupByAggregationError(q) : q \in qs} \cup {cleanSqlQuery(q) : q \in qs}

\* the queries a call can hold after at most k repairs
RECURSIVE QueriesWithin(_)
QueriesWithin(k) == IF k = 0 THEN Queries ELSE WithRepairs(QueriesWithin(k - 1))

\* the two repairs of each query a call can hold, computed once
RepairsOf ==
  [q \in QueriesWithin(MaxRetriesBound) |->
     [fixGroupByAggregationError |-> fixGroupByAggregationError(q),
      cleanSqlQuery |-> cleanSqlQuery(q)]]

\* what the fixer called name makes of query
Repair(name, query) ==
  IF query \in DOMAIN RepairsOf THEN RepairsOf[query][name]
  ELSE IF name = "fixGroupByAggregationError" THEN fixGroupByAggregationError(query)
  ELSE cleanSqlQuery(query)

\* C3: after a failed attempt the repair follows from the message alone: a
\* GROUP BY-class message, also one that is syntax-class as well, is followed
\* by fixGroupByAggregationError and nothing else, a message that is only
\* syntax-class by cleanSqlQuery and nothing else; the one fixer is applied to
\* the query that failed and its result is the query of the next attempt.
C3_RepairChosenFromMessage ==
  \A k \in EventsOf("fail") :
    LET err == history[k].error
        expected == IF IsGroupByClass(err) THEN "fixGroupByAggregationError"
                    ELSE "cleanSqlQuery"
    IN IsGroupByClass(err) \/ IsSyntaxClassOnly(err) =>
         /\ k + 1 <= Len(history)
         /\ history[k + 1].kind = "fix"
         /\ history[k + 1].fixer = expected
         /\ history[k + 1].before = history[k - 1].query
         /\ history[k + 1].after = Repair(expected, history[k - 1].query)
         /\ k + 2 <= Len(history) =>
              /\ history[k + 2].kind = "exec"
              /\ history[k + 2].query = history[k + 1].after
         /\ k + 1 = Len(history) => currentQuery = history[k + 1].after

\* a message of both classes was answered by the GROUP BY fix, which changed the query
C3_Witness ==
  \E k \in EventsOf("fail") :
    /\ HasMessageIn(history[k].error, BothMessages)
    /\ k + 2 <= Len(history)
    /\ history[k + 1].fixer = "fixGroupByAggregationError"
    /\ history[k + 1].after # history[k + 1].before
    /\ history[k + 2].kind = "exec"

\* C4: a call that made at least one attempt and saw every attempt fail
\* rejects with the error of its most recent attempt when throwOnFailure is
\* true and resolves to null when it is false; a call with a successful
\* attempt resolves to that attempt's rows, and nothing is fixed or executed
\* after the success.
C4_SettlementOfTheCall ==
  /\ \A k \in EventsOf("ok") : k = Len(history) /\ pc = "settled"
  /\ pc = "settled" /\ EventsOf("ok") # {} =>
       outcome = [kind |-> "return", value |-> [rowsOfAttempt |-> ExecCount]]
  /\ pc = "settled" /\ EventsOf("ok") = {} /\ EventsOf("fail") # {} =>
       LET last == CHOOSE k \in EventsOf("fail") : \A j \in EventsOf("fail") : j <= k
       IN /\ history[last].attempt = ExecCount
          /\ outcome = IF throwOnFailure
                       THEN [kind |-> "throw", error |-> history[last].error]
                       ELSE [kind |-> "return", value |-> Null]

\* a call that throws the error of its third attempt, which differs from the first's
C4_Witness ==
  /\ pc = "settled"
  /\ outcome.kind = "throw"
  /\ Cardinality(EventsOf("fail")) = 3
  /\ outcome.error.thrownBy = 3
  /\ \E k \in EventsOf("fail") : MessageOf(history[k].error) # MessageOf(outcome.error)

---------------------------------------------------------------------------
(* derivedTableFixer.ts: extractBalancedSubstring on its own.              *)

\* the longest text handed to extractBalancedSubstring
MaxLen == 4

\* the characters of those texts: the parentheses, the quote, any other character
BalancedAlphabet == {"(", ")", "'", "a"}

BalancedInputs == UNION {[1..n -> BalancedAlphabet] : n \in 0..MaxLen}

\* the values of the variables of executeSql while a fixer is looked at on its own
ExecutorIdle ==
  /\ pc = "idle"
  /\ maxRetries = appConfigSql.maxRetries
  /\ throwOnFailure = appConfigSql.throwOnFailure
  /\ currentQuery = <<>>
  /\ attempts = 0
  /\ error = Null
  /\ outcome = Null
  /\ history = <<>>

InitBalanced ==
  /\ ExecutorIdle
  /\ ServicesIdle
  /\ input \in BalancedInputs
  /\ output = <<>>
  /\ stage = "in"

ExtractBalanced ==
  /\ stage = "in"
  /\ output' = extractBalancedSubstring(input)
  /\ stage' = "out"
  /\ UNCHANGED <<input>>
  /\ UNCHANGED execVars
  /\ UNCHANGED serviceVars

NextBalanced == ExtractBalanced

SpecBalanced == InitBalanced /\ [][NextBalanced]_vars

\* how many positions 1..k of s hold the character c
CountUpTo(s, k, c) == Cardinality({j \in 1..k : s[j] = c})

\* the parenthesis depth after position k of a text that starts at depth 1
DepthAfter(s, k) == 1 + CountUpTo(s, k, "(") - CountUpTo(s, k, ")")

\* the positions at which the depth is back at 0
ClosingPositions(s) == {k \in 1..Len(s) : DepthAfter(s, k) = 0}

\* C9: extractBalancedSubstring(s) is the prefix of s that ends just before
\* the first ")" at which the depth, 1 at the start, is back at 0, nested
\* pairs being skipped; it is all of s when there is no such ")"; in both
\* cases it is a prefix of s.
C9_PrefixBeforeMatchingParenthesis ==
  stage = "out" =>
    /\ Len(output) <= Len(input)
    /\ output = SubSeq(input, 1, Len(output))
    /\ IF ClosingPositions(input) = {} THEN output = input
       ELSE /\ Len(output) + 1 \in ClosingPositions(input)
            /\ \A k \in ClosingPositions(input) : Len(output) + 1 <= k
            /\ input[Len(output) + 1] = ")"

\* a nested pair is skipped: "(a))" gives "(a)"
C9_Witness ==
  /\ stage = "out"
  /\ input = <<"(", "a", ")", ")">>
  /\ output = <<"(", "a", ")">>

\* whether position k of s lies inside a single-quoted literal
InLiteral(s, k) == CountUpTo(s, k - 1, "'") % 2 = 1

\* the depth after position k when parentheses inside literals do not count
DepthOutsideLiterals(s, k) ==
  1 + Cardinality({j \in 1..k : s[j] = "(" /\ ~InLiteral(s, j)})
    - Cardinality({j \in 1..k : s[j] = ")" /\ ~InLiteral(s, j)})

ClosingPositionsOutsideLiterals(s) ==
  {k \in 1..Len(s) : s[k] = ")" /\ ~InLiteral(s, k) /\ DepthOutsideLiterals(s, k) = 0}

\* C10: the scan honours string literals: a parenthesis inside a
\* single-quoted literal neither changes the depth nor ends the extraction,
\* so the result ends before the first closing parenthesis outside a literal
\* at which the depth is back at 0.
C10_LiteralsAreSkipped ==
  stage = "out" =>
    IF ClosingPositionsOutsideLiterals(input) = {} THEN output = input
    ELSE /\ Len(output) + 1 \in ClosingPositionsOutsideLiterals(input)
         /\ \A k \in ClosingPositionsOutsideLiterals(input) : Len(output) + 1 <= k

---------------------------------------------------------------------------
(* sqlQueryFixer.ts: fixTopWithTiesAndOffset on its own.                   *)

\* how a query starts: with a TOP clause of some form, or without one
TopHeads ==
  {Str(<<"SELECT", " ", "TOP", " ", "1", "0", " ">>),
   Str(<<"select", " ", "top", " ", "5", " ">>),
   Str(<<"SELECT", " ", "TOP", " ", "5", " ", "PERCENT", " ">>),
   Str(<<"SELECT", " ", "TOP", " ", "3", " ", "WITH", " ", "TIES", " ">>),
   Str(<<"SELECT", "\n", "TOP", " ", " ", "7", "\n">>)}

PlainHeads ==
  {Str(<<"SELECT", " ">>),
   Str(<<"SELECT", " ", "TOP", " ", "(", "1", "0", ")", " ">>),
   Str(<<"SELECT", " ", "TOPS", " ", "1", "0", " ">>),
   Str(<<"SELECT", " ", "DISTINCT", " ">>)}

\* the select list and the rest of the query up to its paging clause
TopBodies ==
  {Str(<<"*", " ", "FROM", " ", "T", " ", "ORDER", " ", "BY", " ", "X">>),
   Str(<<"a", ",", " ", "b", "\n", "FROM", " ", "T", "\n", "ORDER", " ", "BY", " ", "a">>),
   Str(<<"*", " ", "FROM", " ", "T">>)}

\* the paging clause: with the word OFFSET, or without it
OffsetTails ==
  {Str(<<" ", "OFFSET", " ", "5", " ", "ROWS", " ", "FETCH", " ", "NEXT", " ", "1", "0",
         " ", "ROWS", " ", "ONLY">>),
   Str(<<"\n", "offset", " ", "0", " ", "rows">>)}

PlainTails ==
  {<<>>,
   Str(<<" ", "OFFSETS">>),
   Str(<<" ", "DESC">>),
   Str(<<" ", "AS", " ", "TOFFSET">>)}

TopInputs ==
  {h \o b \o tl : h \in TopHeads \cup PlainHeads, b \in TopBodies,
                  tl \in OffsetTails \cup PlainTails}

InitTop ==
  /\ ExecutorIdle
  /\ ServicesIdle
  /\ input \in TopInputs
  /\ output = <<>>
  /\ stage = "in"

FixTop ==
  /\ stage = "in"
  /\ output' = fixTopWithTiesAndOffset(input)
  /\ stage' = "out"
  /\ UNCHANGED <<input>>
  /\ UNCHANGED execVars
  /\ UNCHANGED serviceVars

NextTop == FixTop

SpecTop == InitTop /\ [][NextTop]_vars

\* the query of the scenario and its paging clause
TopScenario ==
  Str(<<"SELECT", " ", "TOP", " ", "1", "0", " ", "*", " ", "FROM", " ", "T", " ", "ORDER",
        " ", "BY", " ", "X", " ", "OFFSET", " ", "5", " ", "ROWS", " ", "FETCH", " ",
        "NEXT", " ", "1", "0", " ", "ROWS", " ", "ONLY">>)

TopScenarioPaging ==
  Str(<<"OFFSET", " ", "5", " ", "ROWS", " ", "FETCH", " ", "NEXT", " ", "1", "0", " ",
        "ROWS", " ", "ONLY">>)

\* s without its /* ... */ comments
RECURSIVE WithoutComments(_)
WithoutComments(s) ==
  IF IndexOf(s, <<"/", "*">>) = 0 \/ IndexOfFrom(s, <<"*", "/">>, IndexOf(s, <<"/", "*">>) + 2) = 0
  THEN s
  ELSE Sub(s, 1, IndexOf(s, <<"/", "*">>))
       \o WithoutComments(Sub(s, IndexOfFrom(s, <<"*", "/">>, IndexOf(s, <<"/", "*">>) + 2) + 2,
                              Len(s) + 1))

---------------------------------------------------------------------------
(* dynamicSqlExecutor.ts: fixGroupByAggregationError on its own.           *)

\* the keywords of a query, as written in capitals or in small letters
GroupByKeywords ==
  {[select |-> Str(<<"SELECT">>), from |-> Str(<<"FROM">>), where |-> Str(<<"WHERE">>),
    order |-> Str(<<"ORDER", " ", "BY">>)],
   [select |-> Str(<<"select">>), from |-> Str(<<"from">>), where |-> Str(<<"where">>),
    order |-> Str(<<"order", " ", "by">>)]}

\* what stands in front of the SELECT keyword
GroupByLeads == {<<>>, <<" ">>, <<"\n">>}

\* SELECT lists mixing aggregates with other columns; items are the
\* expressions of the other columns, without aliases, in the order of the list
GroupByLists ==
  {[text  |-> Str(<<"CustomerID", ",", " ", "SUM", "(", "Amount", ")">>),
    items |-> Str(<<"CustomerID">>)],
   [text  |-> Str(<<"c", ".", "Region", " ", "AS", " ", "Region", ",", " ", "COUNT", "(",
                    "*", ")", " ", "AS", " ", "N", ",", " ", "c", ".", "City">>),
    items |-> Str(<<"c", ".", "Region", ",", " ", "c", ".", "City">>)],
   [text  |-> Str(<<"MAX", "(", "z", ")", ",", " ", "CAST", "(", "x", " ", "AS", " ", "int",
                    ")", " ", "AS", " ", "y">>),
    items |-> Str(<<"CAST", "(", "x", " ", "AS", " ", "int", ")">>)]}

GroupByFroms == {Str(<<"Orders">>), Str(<<"Customers", " ", "c">>)}

\* <<>> stands for a query without the clause
GroupByWheres == {<<>>, Str(<<"Amount", " ", ">", " ", "0">>)}

GroupByOrders == {<<>>, Str(<<"1">>)}

Clause(keyword, text) == IF text = <<>> THEN <<>> ELSE <<" ">> \o keyword \o <<" ">> \o text

GroupByQuery(lead, kw, list, from, where, order) ==
  lead \o kw.select \o <<" ">> \o list.text \o Clause(kw.from, from)
  \o Clause(kw.where, where) \o Clause(kw.order, order)

GroupByInputs ==
  {GroupByQuery(lead, kw, list, from, where, order) :
     lead \in GroupByLeads, kw \in GroupByKeywords, list \in GroupByLists,
     from \in GroupByFroms, where \in GroupByWheres, order \in GroupByOrders}

InitGroupBy ==
  /\ ExecutorIdle
  /\ ServicesIdle
  /\ input \in GroupByInputs
  /\ output = <<>>
  /\ stage = "in"

FixGroupBy ==
  /\ stage = "in"
  /\ output' = fixGroupByAggregationError(input)
  /\ stage' = "out"
  /\ UNCHANGED <<input>>
  /\ UNCHANGED execVars
  /\ UNCHANGED serviceVars

NextGroupBy == FixGroupBy

SpecGroupBy == InitGroupBy /\ [][NextGroupBy]_vars

\* whether a pair of a character and the one before it is not white space after white space
NotSpaceAgain(pair) == ~(pair[1] \in SpaceCh /\ pair[2] \in SpaceCh)

\* the characters of u, each with the one before it
WithBefore(u) == [k \in 1..Len(u) |-> <<u[k], IF k = 1 THEN "" ELSE u[k - 1]>>]

\* the characters of kept pairs, white space as a space
KeptText(pairs) == [k \in 1..Len(pairs) |-> IF pairs[k][1] \in SpaceCh THEN " " ELSE pairs[k][1]]

\* s in capitals, trimmed, each run of white space as one space
Squeezed(s) == KeptText(SelectSeq(WithBefore(ToUpper(Trim(s))), NotSpaceAgain))

\* the query with its GROUP BY clause after WHERE and before ORDER BY
WithGroupBy(kw, list, from, where, order) ==
  kw.select \o <<" ">> \o list.text \o Clause(kw.from, from) \o Clause(kw.where, where)
  \o Clause(Str(<<"GROUP", " ", "BY">>), list.items) \o Clause(kw.order, order)

\* C8: for a query whose final SELECT list mixes aggregate and other columns
\* the result is, up to white space and the case of letters, the same SELECT
\* list, FROM, WHERE and ORDER BY with one GROUP BY clause after WHERE and
\* before ORDER BY that lists the non-aggregate expressions, without aliases,
\* in SELECT-list order.
C8_GroupByAdded ==
  stage = "out" =>
    \A lead \in GroupByLeads, kw \in GroupByKeywords, list \in GroupByLists,
       from \in GroupByFroms, where \in GroupByWheres, order \in GroupByOrders :
      input = GroupByQuery(lead, kw, list, from, where, order) =>
        Squeezed(output) = Squeezed(WithGroupBy(kw, list, from, where, order))

---------------------------------------------------------------------------
(* sqlQueryFixer.ts: fixMalformedJoins on its own.                         *)

\* the two tables of a join with their aliases and the column they share
JoinTables ==
  {[t1 |-> Str(<<"Order", " ", "Details">>), a1 |-> Str(<<"od">>),
    t2 |-> Str(<<"Products">>), a2 |-> <<"p">>, col |-> Str(<<"ProductID">>)],
   [t1 |-> Str(<<"Orders">>), a1 |-> <<"o">>,
    t2 |-> Str(<<"Customers">>), a2 |-> <<"c">>, col |-> Str(<<"CustomerID">>)]}

DboOrNothing == {Str(<<"dbo", ".">>), <<>>}

\* a join with dots where its blanks should be, all in brackets
DottedJoinText(kw, schema1, inner, schema2, tb) ==
  kw \o <<" ", "[">> \o schema1 \o tb.t1 \o <<".">> \o tb.a1 \o <<".">> \o inner
  \o Str(<<"JOIN", ".", "[">>) \o schema2 \o tb.t2 \o <<".">> \o tb.a2
  \o Str(<<".", "ON", ".">>) \o tb.a1 \o <<".">> \o tb.col \o <<" ", "=", " ">>
  \o tb.a2 \o <<".">> \o tb.col \o <<"]">>

DottedJoins ==
  {DottedJoinText(kw, schema1, inner, schema2, tb) :
     kw \in {Str(<<"FROM">>), Str(<<"JOIN">>)}, schema1 \in DboOrNothing,
     inner \in {Str(<<"INNER", ".">>), <<>>}, schema2 \in DboOrNothing, tb \in JoinTables}

\* joins malformed in the other ways the function looks for, and two sound ones
OtherJoins ==
  {Str(<<"[", "FROM", " ", "[", "dbo", "]", ".", "[", "Orders", "]", " ", "o", "]">>),
   Str(<<"[", "FROM", " ", "Orders", " ", "o", "]">>),
   Str(<<"FROM", " ", "[", "Order", "]", " ", "Details", "]", " ", "od">>),
   Str(<<"FROM", " ", "[", "Order", " ", "Details", "]", " ", "od", " ", "JOIN", " ", "dbo",
         ".", "[", "Products", " ", "p", " ", "ON", " ", "od", "]", ".", "ProductID", " ",
         "=", " ", "p", ".", "ProductID">>),
   Str(<<"FROM", " ", "[", "dbo", ".", "Orders", ".", "o", ".", "JOIN", ".", "dbo", ".",
         "Customers", ".", "c", ".", "ON", ".", "o", ".", "CustomerID", " ", "=", " ", "c",
         ".", "CustomerID", "]">>),
   Str(<<"JOIN", " ", "[", "Order", " ", "Details", " ", "ON", " ", "od", ".", "ProductID",
         " ", "=", " ", "p", ".", "ProductID", "]">>),
   Str(<<"JOIN", " ", "dbo", ".", "[", "Products", " ", "p", " ", "ON", " ", "od", "]", ".",
         "ProductID", " ", "=", " ", "p", ".", "ProductID">>),
   Str(<<"JOIN", " ", "dbo", ".", "[", "Products", " ", "p", "]", ".", "ProductID", " ", "=",
         " ", "od", ".", "ProductID">>),
   Str(<<"FROM", " ", "[", "dbo", "]", ".", "[", "Orders", "]", " ", "o", " ", "INNER", " ",
         "JOIN", " ", "[", "dbo", "]", ".", "[", "Customers", "]", " ", "c", " ", "ON", " ",
         "o", ".", "CustomerID", " ", "=", " ", "c", ".", "CustomerID">>),
   Str(<<"FROM", " ", "Orders">>)}

\* a join whose rewriting brings a second malformed join to light: the first
\* takes the keyword of the second for its right-hand side
ChainedJoin ==
  Str(<<"JOIN", " ", "[", "A", "]", ".", "k", "=", "FROM", " ", "[", "B", "]", "=", "c", ".",
        "d">>)

JoinInputs ==
  {<<>>}
  \cup {before \o join \o after :
          before \in {<<>>, Str(<<"SELECT", " ", "*", " ">>)},
          join \in DottedJoins \cup OtherJoins \cup {ChainedJoin},
          after \in {<<>>, Str(<<" ", "WHERE", " ", "x", " ", "=", " ", "1">>)}}

InitJoins ==
  /\ ExecutorIdle
  /\ ServicesIdle
  /\ input \in JoinInputs
  /\ output = <<>>
  /\ stage = "in"

FixJoins ==
  /\ stage = "in"
  /\ output' = fixMalformedJoins(input)
  /\ stage' = "out"
  /\ UNCHANGED <<input>>
  /\ UNCHANGED execVars
  /\ UNCHANGED serviceVars

NextJoins == FixJoins

SpecJoins == InitJoins /\ [][NextJoins]_vars

\* the query of the scenario and the text it is to become
JoinScenario ==
  Str(<<"FROM", " ", "[", "dbo", ".", "Order", " ", "Details", ".", "od", ".", "INNER", ".",
        "JOIN", ".", "[", "dbo", ".", "Products", ".", "p", ".", "ON", ".", "od", ".",
        "ProductID", " ", "=", " ", "p", ".", "ProductID", "]">>)

JoinScenarioFixed ==
  Str(<<"FROM", " ", "[", "dbo", "]", ".", "[", "Order", " ", "Details", "]", " ", "od", " ",
        "INNER", " ", "JOIN", " ", "[", "dbo", "]", ".", "[", "Products", "]", " ", "p", " ",
        "ON", " ", "od", ".", "ProductID", " ", "=", " ", "p", ".", "ProductID">>)

\* C7: for FROM [dbo.Order Details.od.INNER.JOIN.[dbo.Products.p.ON.od.ProductID =
\* p.ProductID] the function returns exactly FROM [dbo].[Order Details] od INNER
\* JOIN [dbo].[Products] p ON od.ProductID = p.ProductID: the rewrites before the
\* loop leave the input alone, the first targeted pass produces that text, and
\* neither the rest of the battery nor a further pass changes it.
C7_DottedJoinRepaired ==
  (stage = "out" /\ input = JoinScenario) =>
    /\ output = JoinScenarioFixed
    /\ PreLoopRewrites(input) = input
    /\ FirstTargetedPass(input) = JoinScenarioFixed
    /\ RemainingBattery(JoinScenarioFixed) = JoinScenarioFixed
    /\ JoinPass(JoinScenarioFixed) = JoinScenarioFixed

\* the scenario has been through the function
C7_Witness ==
  /\ stage = "out"
  /\ input = JoinScenario
  /\ output # input

---------------------------------------------------------------------------
(* fixOrderByBeforeUnion on its own.                                       *)

\* branches without an ORDER BY clause of their own: plain, with an ORDER BY in
\* the parentheses of OVER, with the words in a string
UnionHeads ==
  {Str(<<"SELECT", " ", "a", " ", "FROM", " ", "t">>),
   Str(<<"SELECT", " ", "a", ",", " ", "RANK", "(", ")", " ", "OVER", " ", "(", "ORDER", " ",
         "BY", " ", "a", ")", " ", "AS", " ", "n", " ", "FROM", " ", "t">>),
   Str(<<"SELECT", " ", "'", "ORDER", " ", "BY", " ", "a", "'", " ", "AS", " ", "s", " ",
         "FROM", " ", "t">>)}

UnionOrders ==
  {<<>>, Str(<<" ", "ORDER", " ", "BY", " ", "a">>),
   Str(<<" ", "order", " ", "by", " ", "a", " ", "DESC">>)}

UnionKeywords ==
  {Str(<<" ", "UNION", " ">>), Str(<<" ", "UNION", " ", "ALL", " ">>),
   Str(<<"\n", "union", " ", "all", "\n">>)}

\* a branch and its ORDER BY clause
UnionBranches == [head : UnionHeads, order : UnionOrders]

BranchText(b) == b.head \o b.order

\* the branches that follow the first one
LaterBranches == {b \in UnionBranches : b.head = Str(<<"SELECT", " ", "a", " ", "FROM", " ", "t">>)}

\* a derived table that is a union with an ORDER BY clause, in a union; a string
\* with the words in it, in a union
UnionInParentheses ==
  Str(<<"SELECT", " ", "a", " ", "FROM", " ", "(", "SELECT", " ", "a", " ", "FROM", " ", "t",
        " ", "UNION", " ", "SELECT", " ", "a", " ", "FROM", " ", "u", " ", "ORDER", " ", "BY",
        " ", "a", ")", " ", "q", " ", "UNION", " ", "SELECT", " ", "a", " ", "FROM", " ", "v">>)

UnionInString ==
  Str(<<"SELECT", " ", "'", "a", " ", "UNION", " ", "b", " ", "ORDER", " ", "BY", " ", "c", "'",
        " ", "AS", " ", "s", " ", "UNION", " ", "SELECT", " ", "'", "d", "'">>)

UnionInputs ==
  {<<>>, UnionInParentheses, UnionInString}
  \cup {BranchText(b) : b \in UnionBranches}
  \cup {BranchText(b1) \o kw \o BranchText(b2) :
          b1 \in UnionBranches, kw \in UnionKeywords, b2 \in LaterBranches}
  \cup {BranchText(b1) \o Str(<<" ", "UNION", " ">>) \o BranchText(b2)
        \o Str(<<" ", "UNION", " ", "ALL", " ">>) \o BranchText(b3) :
          b1 \in LaterBranches, b2 \in LaterBranches, b3 \in LaterBranches}

InitUnion ==
  /\ ExecutorIdle
  /\ ServicesIdle
  /\ input \in UnionInputs
  /\ output = <<>>
  /\ stage = "in"

FixUnion ==
  /\ stage = "in"
  /\ output' = fixOrderByBeforeUnion(input)
  /\ stage' = "out"
  /\ UNCHANGED <<input>>
  /\ UNCHANGED execVars
  /\ UNCHANGED serviceVars

NextUnion == FixUnion

SpecUnion == InitUnion /\ [][NextUnion]_vars

\* C11: fixOrderByBeforeUnion is idempotent: applied to its own result it gives
\* that result again, also when the first application removed an ORDER BY clause
\* and left its comment.
C11_OrderByFixIdempotent ==
  stage = "out" => fixOrderByBeforeUnion(output) = output

\* whether the character c is not white space
NotSpace(c) == c \notin SpaceCh

\* s in capitals without its white space
Dense(s) == ToUpper(SelectSeq(s, NotSpace))

\* s without the comments that fixOrderByBeforeUnion leaves
RECURSIVE WithoutNotes(_)
WithoutNotes(s) ==
  IF IndexOf(s, RemovedNote) = 0 THEN s
  ELSE Sub(s, 1, IndexOf(s, RemovedNote))
       \o WithoutNotes(Sub(s, IndexOf(s, RemovedNote) + Len(RemovedNote), Len(s) + 1))

\* the single branches and the two queries whose ORDER BY is in parentheses or in a string
NothingToRemove ==
  {<<>>, UnionInParentheses, UnionInString} \cup {BranchText(b) : b \in UnionBranches}

\* C18: an ORDER BY clause is removed only from a branch that UNION / UNION ALL
\* follows, and only at parenthesis depth 0 outside a string: a query without
\* UNION, and one whose ORDER BY is inside parentheses or inside a string, comes
\* back unchanged; of a union every branch but the last loses its own ORDER BY
\* clause and nothing else, and the last branch keeps its clause.
C18_OrderByRemovedOnlyBeforeUnion ==
  stage = "out" =>
    /\ input \in NothingToRemove => output = input
    /\ \A b1 \in UnionBranches, kw \in UnionKeywords, b2 \in LaterBranches :
         input = BranchText(b1) \o kw \o BranchText(b2) =>
           /\ Dense(WithoutNotes(output)) = Dense(b1.head \o kw \o BranchText(b2))
           /\ b1.order = <<>> => output = input
    /\ \A b1 \in LaterBranches, b2 \in LaterBranches, b3 \in LaterBranches :
         input = BranchText(b1) \o Str(<<" ", "UNION", " ">>) \o BranchText(b2)
                 \o Str(<<" ", "UNION", " ", "ALL", " ">>) \o BranchText(b3) =>
           /\ Dense(WithoutNotes(output))
                = Dense(b1.head \o Str(<<"UNION">>) \o b2.head \o Str(<<"UNION", "ALL">>)
                        \o BranchText(b3))
           /\ (b1.order = <<>> /\ b2.order = <<>>) => output = input

---------------------------------------------------------------------------
(* fixSqlQuery on its own.                                                 *)

\* select lists without an aggregate function; SUMMARY and COUNT are columns
PlainLists ==
  {Str(<<"c">>), Str(<<"c", ",", " ", "d">>), Str(<<"SUMMARY", ",", " ", "COUNT">>)}

\* select lists with an aggregate function next to the column c
GroupedLists ==
  {Str(<<"c", ",", " ", "SUM", "(", "a", ")">>),
   Str(<<"c", ",", " ", "AVG", "(", "a", ")", " ", "AS", " ", "m">>),
   Str(<<"count", "(", "*", ")", ",", " ", "c">>)}

\* select lists of aggregate functions only
AggregateLists == {Str(<<"MAX", "(", "a", ")">>), Str(<<"MIN", " ", "(", "t", ".", "a", ")">>)}

\* what follows the table: nothing, a WHERE clause
UngroupedTails == {<<>>, Str(<<" ", "WHERE", " ", "a", " ", ">", " ", "1">>), <<";">>}

\* what follows the table and groups by c
GroupByTails ==
  {Str(<<" ", "GROUP", " ", "BY", " ", "c">>),
   Str(<<" ", "WHERE", " ", "a", " ", ">", " ", "1", " ", "GROUP", " ", "BY", " ", "c">>),
   Str(<<"\n", "group", " ", "by", " ", "c", ";">>)}

\* what stands before the SELECT: nothing, a common table expression
FixSqlPrefixes ==
  {<<>>,
   Str(<<"WITH", " ", "t", " ", "AS", " ", "(", "SELECT", " ", "a", ",", " ", "c", " ", "FROM",
         " ", "u", ")", " ">>)}

QueryText(prefix, list, tail) ==
  prefix \o Str(<<"SELECT", " ">>) \o list \o Str(<<" ", "FROM", " ", "t">>) \o tail

\* queries without an aggregate function
CleanPlain ==
  {QueryText(p, l, t) : p \in FixSqlPrefixes, l \in PlainLists, t \in UngroupedTails \cup GroupByTails}

\* valid queries whose aggregate select list is followed by a GROUP BY clause
CleanGrouped ==
  {QueryText(p, l, t) : p \in FixSqlPrefixes, l \in GroupedLists, t \in GroupByTails}

\* queries with an aggregate function and no GROUP BY clause
AggregateUngrouped ==
  {QueryText(p, l, t) : p \in FixSqlPrefixes, l \in GroupedLists \cup AggregateLists,
                        t \in UngroupedTails}

\* the options objects of the callers
FixSqlOptions == {<<>>, [verbose |-> FALSE], [useCteRestructuring |-> FALSE]}

FixSqlInputs == [sqlQuery : CleanPlain \cup CleanGrouped \cup AggregateUngrouped, options : FixSqlOptions]

InitFixSql ==
  /\ ExecutorIdle
  /\ ServicesIdle
  /\ input \in FixSqlInputs
  /\ output = <<>>
  /\ stage = "in"

FixSql ==
  /\ stage = "in"
  /\ output' = fixSqlQuery(input.sqlQuery, input.options)
  /\ stage' = "out"
  /\ UNCHANGED <<input>>
  /\ UNCHANGED execVars
  /\ UNCHANGED serviceVars

NextFixSql == FixSql

SpecFixSql == InitFixSql /\ [][NextFixSql]_vars

\* the caller left useCteRestructuring at its default
DefaultRestructuring == "useCteRestructuring" \notin DOMAIN input.options

\* C12: under default options fixSqlQuery returns its input unchanged for a query
\* without an aggregate function and for a valid query whose aggregate select
\* list is followed by a GROUP BY clause.
C12_FixSqlNoOpOnClean ==
  (stage = "out" /\ DefaultRestructuring /\ input.sqlQuery \in CleanPlain \cup CleanGrouped)
    => output = input.sqlQuery

---------------------------------------------------------------------------
(* validateAndFixDerivedTableIssues on its own.                            *)

\* what the outer query selects: a column of the derived table, of the table
\* inside it, the same in brackets
ScopeLists ==
  {Str(<<"d", ".", "r">>), Str(<<"Orders", ".", "r">>), Str(<<"d", ".", "[", "r", "]">>)}

\* the subquery: plain, with a schema, with a subquery of its own
ScopeSubqueries ==
  {Str(<<"SELECT", " ", "r", " ", "FROM", " ", "Orders">>),
   Str(<<"SELECT", " ", "r", " ", "FROM", " ", "[", "dbo", "]", ".", "[", "Orders", "]">>),
   Str(<<"SELECT", " ", "r", " ", "FROM", " ", "Orders", " ", "WHERE", " ", "r", " ", "IN", " ",
         "(", "SELECT", " ", "r", " ", "FROM", " ", "u", ")">>)}

ScopeAliases == {Str(<<" ", "AS", " ", "d">>), Str(<<" ", "d">>)}

\* what follows the derived table
ScopeTails ==
  {<<>>,
   Str(<<" ", "GROUP", " ", "BY", " ", "d", ".", "r">>),
   Str(<<" ", "GROUP", " ", "BY", " ", "Orders", ".", "r">>),
   Str(<<" ", "GROUP", " ", "BY", " ", "[", "Orders", "]", ".", "[", "r", "]">>),
   Str(<<" ", "WHERE", " ", "Orders", ".", "r", " ", ">", " ", "1", " ", "ORDER", " ", "BY",
         " ", "d", ".", "r">>),
   Str(<<" ", "ORDER", " ", "BY", " ", "Orders", ".", "[", "r", "]">>),
   Str(<<" ", "JOIN", " ", "x", " ", "ON", " ", "x", ".", "r", " ", "=", " ", "orders", ".",
         "r", ";">>)}

ScopeQuery(list, subquery, alias, tail) ==
  Str(<<"SELECT", " ">>) \o list \o Str(<<" ", "FROM", " ", "(">>) \o subquery
  \o <<")">> \o alias \o tail

\* a common table expression that the query selects from
ScopeCte ==
  Str(<<"WITH", " ", "c", " ", "AS", " ", "(", "SELECT", " ", "r", " ", "FROM", " ", "Orders",
        ")", " ", "SELECT", " ", "Orders", ".", "r", " ", "FROM", " ", "c">>)

\* a derived table that names its table in its own select list, and the outer
\* WHERE clause that names the table too
ScopeScenario ==
  Str(<<"SELECT", " ", "Region", " ", "FROM", " ", "(", "SELECT", " ", "Orders", ".",
        "ShipRegion", " ", "AS", " ", "Region", " ", "FROM", " ", "Orders", ")", " ", "AS", " ",
        "RegionData", " ", "WHERE", " ", "Orders", ".", "ShipRegion", " ", "=", " ", "'", "WA",
        "'">>)

\* an outer WHERE clause that names the table of the derived table in lower case
ScopeLowerCase ==
  Str(<<"SELECT", " ", "d", ".", "r", " ", "FROM", " ", "(", "SELECT", " ", "r", " ", "FROM",
        " ", "Orders", ")", " ", "AS", " ", "d", " ", "WHERE", " ", "orders", ".", "r", " ",
        ">", " ", "1">>)

ScopeInputs ==
  {<<>>, ScopeCte, ScopeScenario, ScopeLowerCase,
   Str(<<"SELECT", " ", "r", " ", "FROM", " ", "Orders">>)}
  \cup {ScopeQuery(l, q, a, t) :
          l \in ScopeLists, q \in ScopeSubqueries, a \in ScopeAliases, t \in ScopeTails}

InitScope ==
  /\ ExecutorIdle
  /\ ServicesIdle
  /\ input \in ScopeInputs
  /\ output = <<>>
  /\ stage = "in"

FixScope ==
  /\ stage = "in"
  /\ output' = validateAndFixDerivedTableIssues(input)
  /\ stage' = "out"
  /\ UNCHANGED <<input>>
  /\ UNCHANGED execVars
  /\ UNCHANGED serviceVars

NextScope == FixScope

SpecScope == InitScope /\ [][NextScope]_vars

\* whether the text ends with the given text
EndsWith(text, end) ==
  Len(text) >= Len(end) /\ SubSeq(text, Len(text) - Len(end) + 1, Len(text)) = end

\* C14: validateAndFixDerivedTableIssues always returns a result; when
\* fixDerivedTableScopeIssues throws, the result has isValid = false, the
\* original query as fixedQuery, and one warning only, which carries the message
\* of the error; when it does not throw, isValid is true.
C14_ScopeFixNeverThrows ==
  stage = "out" =>
    /\ DOMAIN output = {"isValid", "fixedQuery", "warnings"}
    /\ output.isValid = ~fixDerivedTableScopeIssues(input).thrown
    /\ fixDerivedTableScopeIssues(input).thrown =>
         /\ output.fixedQuery = input
         /\ Len(output.warnings) = 1
         /\ EndsWith(output.warnings[1], fixDerivedTableScopeIssues(input).error.message)

\* a call in which an extracted table name made an invalid regular expression
C14_Witness ==
  /\ stage = "out"
  /\ fixDerivedTableScopeIssues(input).thrown
  /\ Test(ScopeIssuePattern, input)
  /\ output.isValid = FALSE

\* the end offset of the first derived table or CTE of the query
FirstEndOffset(sqlQuery) == CollectedTables(sqlQuery)[1].endPos

\* C5: fixDerivedTableScopeIssues rewrites table.column to alias.column only
\* after the end offset of the derived table or CTE: every character of the
\* query before that offset is unchanged, and in the scenario the outer WHERE is
\* rewritten while the Orders.ShipRegion inside the subquery stays as written.
C5_RewriteOnlyAfterDerivedTable ==
  (stage = "out" /\ output.isValid /\ Len(CollectedTables(input)) = 1) =>
    /\ SubSeq(output.fixedQuery, 1, FirstEndOffset(input))
         = SubSeq(input, 1, FirstEndOffset(input))
    /\ input = ScopeScenario =>
         output.fixedQuery =
           Str(<<"SELECT", " ", "Region", " ", "FROM", " ", "(", "SELECT", " ", "Orders", ".",
                 "ShipRegion", " ", "AS", " ", "Region", " ", "FROM", " ", "Orders", ")", " ",
                 "AS", " ", "RegionData", " ", "WHERE", " ", "RegionData", ".", "ShipRegion",
                 " ", "=", " ", "'", "WA", "'">>)

---------------------------------------------------------------------------
(* db/database.ts: getTableSchema, getAllTables, executeQuery.             *)

\* how many calls of the three functions are made
MaxCalls == 2

\* the values of dbConfig.type that getDatabaseConfig lets through: two that are
\* implemented, one that has its queries only, one that the switch statements of
\* getTableSchema and getAllTables do not know
TypeMssql == Str(<<"mssql">>)

TypeSqlServer == Str(<<"sqlserver">>)

DbTypes == {TypeMssql, TypeSqlServer, Str(<<"mysql">>), Str(<<"sqlite">>)}

\* the cases of the switch statements
KnownTypes ==
  {TypeMssql, TypeSqlServer, Str(<<"mysql">>), Str(<<"postgresql">>), Str(<<"postgres">>)}

\* dbConfig.type === 'mssql' || dbConfig.type === 'sqlserver'
Implemented == dbType \in {TypeMssql, TypeSqlServer}

SchemaNames == {Str(<<"dbo">>)}

TableNames == {Str(<<"Orders">>), Str(<<"Users">>)}

\* the recordsets that the database gives: the columns of a table, and those of
\* the table after a column was added
RecordSets == {<<"OrderID">>, <<"OrderID", "Total">>}

\* the errors that sql.connect and request.query reject with
ConnectErrors == {[message |-> Str(<<"Failed", " ", "to", " ", "connect">>)]}

RequestErrors == {[message |-> Str(<<"Invalid", " ", "object", " ", "name">>)]}

\* `${schemaName}.${tableName}`
CacheKey(schemaName, tableName) == schemaName \o <<".">> \o tableName

\* schemaCache is a Map: its entries [key, value] in the order of their insertion
CacheKeys(cache) == {cache[k].key : k \in 1..Len(cache)}

\* schemaCache.has(key)
CacheHas(cache, key) == key \in CacheKeys(cache)

\* schemaCache.get(key) for a key that the Map has
CacheGet(cache, key) == cache[CHOOSE k \in 1..Len(cache) : cache[k].key = key].value

\* schemaCache.set(key, value) that leaves the value of a key that the Map has
CacheSetIfAbsent(cache, key, value) ==
  IF key \in CacheKeys(cache) THEN cache ELSE Append(cache, [key |-> key, value |-> value])

\* schemaCache.set(key, value)
CacheSet(cache, key, value) ==
  IF key \in CacheKeys(cache)
  THEN [k \in 1..Len(cache) |->
          IF cache[k].key = key THEN [key |-> key, value |-> value] ELSE cache[k]]
  ELSE Append(cache, [key |-> key, value |-> value])

\* how an async function's promise settles
Fulfilled(value) == [state |-> "fulfilled", value |-> value]

Rejected(err) == [state |-> "rejected", error |-> err]

\* a call as it begins: pool is let pool (0 for undefined, else the number of
\* the pool in pools), pending is what the try or catch block returned or threw
\* and the finally block has yet to let through, connects counts the calls of
\* sql.connect and closes those of pool.close() that the call made, result is
\* what its query resolved with, key and query are empty where the function has
\* none
NewCall(op, key, query) ==
  [op |-> op, key |-> key, query |-> query, at |-> "called", pool |-> 0, pending |-> Null,
   settled |-> Null, connects |-> 0, closes |-> 0, result |-> Null]

\* the call c, settled
Settle(c, how) == [c EXCEPT !.at = "settled", !.settled = how]

\* the call c at await sql.connect(sqlConfig)
Connecting(c) == [c EXCEPT !.at = "connecting", !.connects = @ + 1]

\* new Error(`${text}${dbConfig.type}`)
TypeError(text) == [message |-> text \o dbType]

\* the catch block of the function: getTableSchema returns [], the others throw
\* the error again
Caught(op, err) == IF op = "getTableSchema" THEN Fulfilled(<<>>) ELSE Rejected(err)

\* getTableSchema up to its first await
getTableSchema(schemaName, tableName) ==
  CASE CacheHas(schemaCache, CacheKey(schemaName, tableName)) ->
         Settle(NewCall("getTableSchema", CacheKey(schemaName, tableName), <<>>),
                Fulfilled(CacheGet(schemaCache, CacheKey(schemaName, tableName))))
    [] ~CacheHas(schemaCache, CacheKey(schemaName, tableName)) /\ dbType \notin KnownTypes ->
         Settle(NewCall("getTableSchema", CacheKey(schemaName, tableName), <<>>),
                Rejected(TypeError(Str(<<"Schema", " ", "query", " ", "not", " ",
                                         "implemented", " ", "for", " ", "database", " ",
                                         "type", ":", " ">>))))
    [] ~CacheHas(schemaCache, CacheKey(schemaName, tableName)) /\ dbType \in KnownTypes
       /\ ~Implemented ->
         Settle(NewCall("getTableSchema", CacheKey(schemaName, tableName), <<>>),
                Fulfilled(<<>>))
    [] ~CacheHas(schemaCache, CacheKey(schemaName, tableName)) /\ Implemented ->
         Connecting(NewCall("getTableSchema", CacheKey(schemaName, tableName), <<>>))

\* getAllTables up to its first await
getAllTables ==
  CASE dbType \notin KnownTypes ->
         Settle(NewCall("getAllTables", <<>>, <<>>),
                Rejected(TypeError(Str(<<"Table", " ", "listing", " ", "query", " ", "not", " ",
                                         "implemented", " ", "for", " ", "database", " ",
                                         "type", ":", " ">>))))
    [] dbType \in KnownTypes /\ ~Implemented ->
         Settle(NewCall("getAllTables", <<>>, <<>>),
                Rejected(TypeError(Str(<<"Database", " ", "connection", " ", "not", " ", "yet",
                                         " ", "implemented", " ", "for", " ", "type", ":",
                                         " ">>))))
    [] Implemented -> Connecting(NewCall("getAllTables", <<>>, <<>>))

\* the query trimmed, its backticks left in
CleanedQueryTrimmedOnly(query) == Trim(query)

\* query.replace(/`/g, '').trim()
CleanedQuery(query) == Trim(SelectSeq(query, LAMBDA ch : ch # Backtick))

\* executeQuery up to its first await
executeQuery(query) ==
  IF Implemented THEN Connecting(NewCall("executeQuery", <<>>, CleanedQuery(query)))
  ELSE Settle(NewCall("executeQuery", <<>>, CleanedQuery(query)),
              Rejected(TypeError(Str(<<"Query", " ", "execution", " ", "not", " ", "yet", " ",
                                       "implemented", " ", "for", " ", "type", ":", " ">>))))

\* the queries handed to executeQuery
DatabaseQueries ==
  {Str(<<"SELECT", " ", "1">>), Str(<<Backtick, "SELECT", " ", "1", Backtick, " ">>)}

\* the calls that a caller makes
NewCalls ==
  {getTableSchema(s, t) : s \in SchemaNames, t \in TableNames}
  \cup {getAllTables}
  \cup {executeQuery(q) : q \in DatabaseQueries}

InitDatabase ==
  /\ ExecutorIdle
  /\ FixerIdle
  /\ VerifyIdle
  /\ DialogIdle
  /\ dbType \in DbTypes
  /\ calls = <<>>
  /\ pools = <<>>
  /\ schemaCache = <<>>
  /\ completions = <<>>

\* one of the three functions is called and runs to its first await or to its end
CallDatabase ==
  /\ Len(calls) < MaxCalls
  /\ \E c \in NewCalls : calls' = Append(calls, c)
  /\ UNCHANGED <<dbType, pools, schemaCache, completions>>

\* the finally block without pool.close(): the promise settles while the pool
\* is open
FinallyNoClose(c, how) == [c EXCEPT !.at = "settled", !.settled = how]

\* the finally block of a call whose pool is set: pool.close() is called and
\* awaited, and what the try or catch block gave waits for it
Finally(c, how) == [c EXCEPT !.at = "closing", !.pending = how, !.closes = @ + 1]

\* a pool on which close() was called
Closing(pool) ==
  [pool EXCEPT !.state = IF @ = "closed" THEN "closed" ELSE "closing", !.closes = @ + 1]

\* pools when the finally block has run and left the call as it is in after
PoolsAfter(after) ==
  IF after.at = "closing" THEN [pools EXCEPT ![after.pool] = Closing(@)] ELSE pools

\* the pools that sql.connect can resolve with: a new one (0), or one that an
\* earlier call of sql.connect made and that nobody has closed yet, which is
\* what a driver with one global pool gives
Connectable == {0} \cup {p \in 1..Len(pools) : pools[p].state = "open"}

\* await sql.connect(sqlConfig) resolves with a pool, and the query is sent
ConnectResolves(c, p) ==
  /\ calls[c].at = "connecting"
  /\ pools' = IF p = 0 THEN Append(pools, [state |-> "open", closes |-> 0]) ELSE pools
  /\ calls' = [calls EXCEPT ![c] = [@ EXCEPT !.at = "querying",
                                               !.pool = IF p = 0 THEN Len(pools) + 1 ELSE p]]
  /\ UNCHANGED <<dbType, schemaCache, completions>>

\* await sql.connect(sqlConfig) rejects: pool is undefined in the finally block
ConnectRejects(c, err) ==
  /\ calls[c].at = "connecting"
  /\ calls' = [calls EXCEPT ![c] = Settle(@, Caught(@.op, err))]
  /\ UNCHANGED <<dbType, pools, schemaCache, completions>>

\* the query of the call c resolves with result.recordset; getTableSchema caches it
QueryResolves(c, recordset) ==
  /\ calls[c].at = "querying"
  /\ calls' = [calls EXCEPT ![c] = Finally([@ EXCEPT !.result = [recordset |-> recordset]], Fulfilled(recordset))]
  /\ pools' = PoolsAfter(calls'[c])
  /\ IF calls[c].op = "getTableSchema"
     THEN /\ schemaCache' = CacheSet(schemaCache, calls[c].key, recordset)
          /\ completions' = Append(completions, [call |-> c, key |-> calls[c].key,
                                                 rows |-> recordset])
     ELSE UNCHANGED <<schemaCache, completions>>
  /\ UNCHANGED <<dbType>>

\* the query of the call c rejects
QueryRejects(c, err) ==
  /\ calls[c].at = "querying"
  /\ calls' = [calls EXCEPT ![c] = Finally(@, Caught(@.op, err))]
  /\ pools' = PoolsAfter(calls'[c])
  /\ UNCHANGED <<dbType, schemaCache, completions>>

\* await pool.close() resolves and the promise of the call settles
CloseResolves(c) ==
  /\ calls[c].at = "closing"
  /\ pools' = [pools EXCEPT ![calls[c].pool] = [@ EXCEPT !.state = "closed"]]
  /\ calls' = [calls EXCEPT ![c] = Settle(@, @.pending)]
  /\ UNCHANGED <<dbType, schemaCache, completions>>

NextDatabase ==
  \/ /\ CallDatabase
     /\ UNCHANGED <<execVars, fixerVars, verifyVars, dialogVars>>
  \/ /\ \E c \in 1..Len(calls), p \in Connectable : ConnectResolves(c, p)
     /\ UNCHANGED <<execVars, fixerVars, verifyVars, dialogVars>>
  \/ /\ \E c \in 1..Len(calls), err \in ConnectErrors : ConnectRejects(c, err)
     /\ UNCHANGED <<execVars, fixerVars, verifyVars, dialogVars>>
  \/ /\ \E c \in 1..Len(calls), recordset \in RecordSets : QueryResolves(c, recordset)
     /\ UNCHANGED <<execVars, fixerVars, verifyVars, dialogVars>>
  \/ /\ \E c \in 1..Len(calls), err \in RequestErrors : QueryRejects(c, err)
     /\ UNCHANGED <<execVars, fixerVars, verifyVars, dialogVars>>
  \/ /\ \E c \in 1..Len(calls) : CloseResolves(c)
     /\ UNCHANGED <<execVars, fixerVars, verifyVars, dialogVars>>

SpecDatabase == InitDatabase /\ [][NextDatabase]_vars

\* the calls that have settled
SettledCalls == {c \in 1..Len(calls) : calls[c].at = "settled"}

\* C15: a call of executeQuery, getAllTables or getTableSchema that got a pool
\* from sql.connect has called pool.close() once when it settles, whether its
\* query resolved, rejected, or rejected and was turned into [], and the pool
\* is closed then and from then on; before the finally block no call has
\* closed anything, and a call without a pool closes nothing.
C15_PoolClosedOnceOnEveryPath ==
  \A c \in 1..Len(calls) :
    /\ calls[c].at \in {"connecting", "querying"} => calls[c].closes = 0
    /\ calls[c].at = "closing" => calls[c].closes = 1 /\ calls[c].pool # 0
    /\ calls[c].at = "settled" /\ calls[c].pool = 0 => calls[c].closes = 0
    /\ calls[c].at = "settled" /\ calls[c].pool # 0 =>
         /\ calls[c].closes = 1
         /\ pools[calls[c].pool].state = "closed"

\* the three paths with a pool have all been taken: a query that resolved, an
\* error thrown again, an error turned into []
C15_Witness ==
  /\ \E c \in SettledCalls :
       /\ calls[c].op = "executeQuery"
       /\ calls[c].pool # 0
       /\ calls[c].settled.state = "rejected"
  /\ \E c \in SettledCalls :
       /\ calls[c].op = "getTableSchema"
       /\ calls[c].pool # 0
       /\ calls[c].result = Null
       /\ calls[c].settled = Fulfilled(<<>>)

\* the call that this step begins, 0 when it begins none
Begun == IF Len(calls') = Len(calls) + 1 THEN Len(calls') ELSE 0

\* what the call c gives its caller, once its try or catch block has decided it
Outcome(c) == IF c.at = "settled" THEN c.settled ELSE c.pending

\* the calls of getTableSchema that were waiting for the database and in this
\* step learn that their lookup failed
FailingNow ==
  {c \in 1..Len(calls) :
     /\ calls[c].op = "getTableSchema"
     /\ calls[c].at \in {"connecting", "querying"}
     /\ calls'[c].at \in {"closing", "settled"}
     /\ calls'[c].result = Null}

\* the calls of getTableSchema whose query resolves in this step
SucceedingNow ==
  {c \in 1..Len(calls) :
     /\ calls[c].op = "getTableSchema"
     /\ calls[c].result = Null
     /\ calls'[c].result # Null}

\* a call of getTableSchema that begins when the cache has its key returns the
\* cached value at once: no sql.connect, no pool
HitWithoutAccess ==
  Begun # 0 /\ calls'[Begun].op = "getTableSchema"
  /\ CacheHas(schemaCache, calls'[Begun].key) =>
    /\ calls'[Begun].settled = Fulfilled(CacheGet(schemaCache, calls'[Begun].key))
    /\ calls'[Begun].connects = 0
    /\ calls'[Begun].pool = 0
    /\ pools' = pools
    /\ schemaCache' = schemaCache

\* a call of getTableSchema that begins without a cached value and cannot
\* look its key up returns [] and leaves the cache as it is
MissWithoutLookup ==
  Begun # 0 /\ calls'[Begun].op = "getTableSchema"
  /\ ~CacheHas(schemaCache, calls'[Begun].key) /\ calls'[Begun].at = "settled" =>
    /\ calls'[Begun].settled = Fulfilled(<<>>)
    /\ schemaCache' = schemaCache

\* a lookup that fails at sql.connect or at the query gives [] and leaves the
\* cache as it is, and the finally block hands on what was decided
FailureGivesEmpty ==
  /\ \A c \in FailingNow : Outcome(calls'[c]) = Fulfilled(<<>>) /\ schemaCache' = schemaCache
  /\ \A c \in 1..Len(calls) :
       calls[c].at = "closing" /\ calls'[c].at = "settled" =>
         calls'[c].settled = calls[c].pending

\* the cache changes only when a query of getTableSchema resolves, and then
\* by the entry of that query
PopulatedByQueries ==
  schemaCache' # schemaCache =>
    \E c \in SucceedingNow :
      schemaCache' = CacheSet(schemaCache, calls[c].key, calls'[c].result.recordset)

\* no key leaves the cache
NeverInvalidated == CacheKeys(schemaCache) \subseteq CacheKeys(schemaCache')

\* C16: schemaCache is filled by the queries of getTableSchema and by nothing
\* else, no step removes a key, a call of getTableSchema that begins when its
\* key is cached returns the cached value without sql.connect, and a call that
\* gets no rows returns [] and leaves the cache as it is.
C16_CacheLazyNeverInvalidated ==
  [][/\ NeverInvalidated
     /\ PopulatedByQueries
     /\ HitWithoutAccess
     /\ FailureGivesEmpty
     /\ MissWithoutLookup]_vars

\* the places in completions of the queries for key that resolved
CompletionsFor(key) == {k \in 1..Len(completions) : completions[k].key = key}

\* the query for key that resolved last
LastCompletion(key) ==
  completions[CHOOSE k \in CompletionsFor(key) : \A j \in CompletionsFor(key) : j <= k]

\* the pairs of calls of getTableSchema for one key that both found the cache
\* without it, both went to the database, and have both settled
RacingPairs ==
  {pair \in SettledCalls \X SettledCalls :
     /\ pair[1] < pair[2]
     /\ calls[pair[1]].op = "getTableSchema"
     /\ calls[pair[2]].op = "getTableSchema"
     /\ calls[pair[1]].key = calls[pair[2]].key
     /\ calls[pair[1]].connects = 1
     /\ calls[pair[2]].connects = 1}

\* the call c returned the rows of its own query, or [] when it got none
ReturnedOwnRows(c) ==
  calls[c].settled =
    IF calls[c].result = Null THEN Fulfilled(<<>>) ELSE Fulfilled(calls[c].result.recordset)

\* C17: when two calls of getTableSchema for the same uncached key have both
\* gone to the database and settled, each has returned the rows of its own
\* query or [] on an error, the cache has the key when one of the queries
\* resolved and then holds the rows of the query that resolved last, and
\* every value in the cache is the recordset of a query that resolved.
C17_SchemaRaceLastWriteWins ==
  /\ \A pair \in RacingPairs :
       /\ ReturnedOwnRows(pair[1])
       /\ ReturnedOwnRows(pair[2])
       /\ calls[pair[1]].result # Null \/ calls[pair[2]].result # Null =>
            /\ CacheHas(schemaCache, calls[pair[1]].key)
            /\ CacheGet(schemaCache, calls[pair[1]].key)
                 = LastCompletion(calls[pair[1]].key).rows
  /\ \A k \in 1..Len(schemaCache) :
       \E j \in CompletionsFor(schemaCache[k].key) :
         completions[j].rows = schemaCache[k].value

\* two racing calls got different rows, and the one that began first resolved
\* last
C17_Witness ==
  \E pair \in RacingPairs :
    /\ calls[pair[1]].result # Null
    /\ calls[pair[2]].result # Null
    /\ calls[pair[1]].result # calls[pair[2]].result
    /\ LastCompletion(calls[pair[1]].key).call = pair[1]

---------------------------------------------------------------------------
(* verifySQLQuery, validateAndCleanQuery, handleSQLErrorMessage.           *)

\* the character U+274C
CrossMark == "crossmark"

\* the values that a caller can hand over as sqlQuery
Undefined == [type |-> "undefined"]

JsNull == [type |-> "object", null |-> TRUE]

AnObject == [type |-> "object", null |-> FALSE]

Num(n) == [type |-> "number", number |-> n]

Bool(b) == [type |-> "boolean", boolean |-> b]

Text(s) == [type |-> "string", text |-> s]

\* !v
Falsy(v) == v \in {Undefined, JsNull, Num(0), Bool(FALSE), Text(<<>>)}

Candidates ==
  {Undefined, JsNull, AnObject, Num(0), Num(7), Bool(FALSE), Bool(TRUE), Text(<<>>),
   Text(Str(<<" ">>)), Text(Str(<<"SELECT", " ", "1">>)),
   Text(Str(<<Backtick, "SELECT", " ", "*", " ", "FROM", " ", "Orders", Backtick, " ">>))}

\* typeof sqlQuery !== 'string'
RejectsNonStrings(v) == v.type # "string"

\* !sqlQuery || typeof sqlQuery !== 'string'
Rejects(v) == Falsy(v) \/ v.type # "string"

\* new Error('Invalid SQL query')
InvalidSqlQuery == [message |-> Str(<<"Invalid", " ", "SQL", " ", "query">>)]

\* the passes of validateAndCleanQuery in the order of their calls
CleaningPasses ==
  <<"cleanSQLQuery", "fixMalformedJoins", "fixTopWithTiesAndOffset",
    "fixAggregateCalculations", "replace", "fixOrderByBeforeUnion",
    "fixWindowFunctionGroupBy", "replace", "replace", "trim">>

\* the passes of verifySQLQuery on a text that is not empty after cleaning
FixingPasses == <<"validateAndFixSQLQuery", "validateAndFixDerivedTableIssues">>

\* This specification follows which passes run and how the promise settles; it
\* does not compute the text that the passes make of a string. What
\* validateAndCleanQuery returns is one of: nothing, for a text that is all
\* cleaned away, or the text without its backticks, trimmed.
CleanedOf(s) == {<<>>, Trim(SelectSeq(s, LAMBDA ch : ch # Backtick))}

\* the warnings that verifySQLQuery collects ahead of await ensureContext(), in
\* the order of their pushes; which of them a text earns is not computed here
WarningKinds ==
  <<"syntaxFix", "scopeFix", "noWhere", "selectStar", "joinWithoutOn", "nestedAggregate",
    "limit">>

WarningsOf(kinds) == SelectSeq(WarningKinds, LAMBDA w : w \in kinds)

\* /['"\[]([^\]'"]+)['"\]]/
QuotedNamePattern ==
  <<Ch({"'", "\"", "["}), Grp(1, <<Plus(<<NCh({"]", "'", "\""})>>)>>), Ch({"'", "\"", "]"})>>

\* msg.toLowerCase()
ToLower(s) == [i \in 1..Len(s) |-> Lo(s[i])]

\* tableMatch ? tableMatch[1] : ''
InvalidTable(msg) ==
  IF Test(QuotedNamePattern, msg) THEN Cap(msg, Exec(QuotedNamePattern, msg), 1) ELSE <<>>

\* what handleSQLErrorMessage adds for an invalid object name; schemaContext is
\* {}, so no table is similar
TableAdvice(invalidTable) ==
  IF invalidTable = <<>> THEN <<>>
  ELSE Str(<<"\n", "\n", "The", " ", "table", " ", "\"">>) \o invalidTable
       \o Str(<<"\"", " ", "doesn", "'", "t", " ", "exist", ".", " ", "Check", " ", "the",
                " ", "table", " ", "name", " ", "and", " ", "try", " ", "again", ".">>)

\* what handleSQLErrorMessage adds to `${CrossMark} SQL Error: ${msg}`; in the
\* column branch schemaContext is {}, so no table has the column
AdviceFor(msg, errorLower) ==
  CASE Includes(errorLower, Str(<<"invalid", " ", "object", " ", "name">>))
       \/ Includes(errorLower, Str(<<"invalid", " ", "table", " ", "name">>)) ->
         TableAdvice(InvalidTable(msg))
    [] OTHER ->
         IF Includes(errorLower, Str(<<"column">>))
            /\ (\/ Includes(errorLower, Str(<<"unknown">>))
                \/ Includes(errorLower, Str(<<"invalid">>))
                \/ Includes(errorLower, Str(<<"not", " ", "found">>)))
         THEN <<>>
         ELSE IF Includes(errorLower, Str(<<"syntax", " ", "error">>))
                 \/ Includes(errorLower, Str(<<"incorrect", " ", "syntax">>))
         THEN Str(<<"\n", "\n", "This", " ", "appears", " ", "to", " ", "be", " ", "a",
                    " ", "syntax", " ", "error", ".", " ", "Common", " ", "causes", " ",
                    "include", ":", "\n", "-", " ", "Missing", " ", "or", " ",
                    "mismatched", " ", "parentheses", "\n", "-", " ", "Incorrect", " ",
                    "JOIN", " ", "syntax", "\n", "-", " ", "Missing", " ", "commas", " ",
                    "between", " ", "columns", "\n", "-", " ", "Using", " ", "incorrect",
                    " ", "SQL", " ", "dialect", " ", "features">>)
         ELSE IF Includes(errorLower, Str(<<"aggregate", " ", "function">>))
                 /\ Includes(errorLower, Str(<<"subquery">>))
         THEN Str(<<"\n", "\n", "SQL", " ", "Server", " ", "cannot", " ", "process", " ",
                    "an", " ", "aggregate", " ", "function", " ", "(", "SUM", ",", " ",
                    "COUNT", ",", " ", "AVG", ",", " ", "etc", ".", ")", " ", "that", " ",
                    "contains", " ", "a", " ", "subquery", ".", "\n", "Consider", " ",
                    "these", " ", "solutions", ":", "\n", "-", " ", "Move", " ", "the",
                    " ", "subquery", " ", "to", " ", "a", " ", "JOIN", "\n", "-", " ",
                    "Create", " ", "a", " ", "CTE", " ", "(", "Common", " ", "Table", " ",
                    "Expression", ")", " ", "for", " ", "the", " ", "subquery", "\n", "-",
                    " ", "Use", " ", "a", " ", "derived", " ", "table", " ", "or", " ",
                    "temporary", " ", "table", "\n", "-", " ", "Calculate", " ",
                    "aggregated", " ", "values", " ", "separately">>)
         ELSE <<>>

\* handleSQLErrorMessage(error) for a string, as verifySQLQuery calls it
handleSQLErrorMessage(msg) ==
  IF msg = <<>> THEN Str(<<"An", " ", "unknown", " ", "SQL", " ", "error", " ", "occurred", ".">>)
  ELSE Str(<<CrossMark, " ", "SQL", " ", "Error", ":", " ">>) \o msg \o AdviceFor(msg, ToLower(msg))

\* the catch block of verifySQLQuery
VerifyCaught(err) ==
  Fulfilled([isValid |-> FALSE,
             errors |-> <<IF err.message # <<>> THEN handleSQLErrorMessage(err.message)
                          ELSE Str(<<"Unknown", " ", "SQL", " ", "error">>)>>,
             warnings |-> <<>>])

\* the return of verifySQLQuery for a text that is empty after cleaning
EmptyAfterCleaning ==
  Fulfilled([isValid |-> FALSE,
             errors |-> <<Str(<<"Query", " ", "is", " ", "empty", " ", "or", " ",
                                "contains", " ", "no", " ", "valid", " ", "SQL", " ",
                                "statements">>)>>,
             warnings |-> <<>>])

\* the errors that ensureContext() can reject with: two of the database, one
\* without a message
ContextErrors ==
  {[message |-> Str(<<"Invalid", " ", "object", " ", "name", " ", "'", "Orderz", "'", ".">>)],
   [message |-> Str(<<"Incorrect", " ", "syntax", " ", "near", " ", "'", "FROM", "'", ".">>)],
   [message |-> <<>>]}

\* how many tables of a query the schema context can lack
MaxMissingTables == 1

\* verifySQLQuery(v) up to its first await: the guard of validateAndCleanQuery
\* throws into the catch block, an empty cleaned text returns, every other text
\* goes through the fixing passes and the warning checks to ensureContext()
VerifyCall(v, cleaned, kinds) ==
  /\ verifyPc = "idle"
  /\ candidate' = v
  /\ IF Rejects(v)
     THEN /\ passesRun' = <<>>
          /\ verifyPc' = "settled"
          /\ verification' = VerifyCaught(InvalidSqlQuery)
     ELSE /\ cleaned \in CleanedOf(v.text)
          /\ IF Len(Trim(cleaned)) = 0
             THEN /\ passesRun' = CleaningPasses
                  /\ verifyPc' = "settled"
                  /\ verification' = EmptyAfterCleaning
             ELSE /\ passesRun' = CleaningPasses \o FixingPasses
                  /\ verifyPc' = "ensureContext"
                  /\ verification' = [state |-> "pending", fixedQuery |-> cleaned,
                                      warnings |-> WarningsOf(kinds)]

\* await ensureContext() resolves; a warning is pushed for each table of the
\* query that the context lacks
ContextResolves(missing) ==
  /\ verifyPc = "ensureContext"
  /\ verifyPc' = "settled"
  /\ verification' =
       Fulfilled([isValid |-> TRUE, fixedQuery |-> verification.fixedQuery, errors |-> <<>>,
                  warnings |-> verification.warnings \o [k \in 1..missing |-> "missingTable"]])
  /\ UNCHANGED <<candidate, passesRun>>

\* await ensureContext() rejects, and the catch block returns
ContextRejects(err) ==
  /\ verifyPc = "ensureContext"
  /\ verifyPc' = "settled"
  /\ verification' = VerifyCaught(err)
  /\ UNCHANGED <<candidate, passesRun>>

InitVerify ==
  /\ ExecutorIdle
  /\ FixerIdle
  /\ DatabaseIdle
  /\ DialogIdle
  /\ VerifyIdle

NextVerify ==
  \/ /\ \E v \in Candidates, kinds \in SUBSET {WarningKinds[k] : k \in 1..Len(WarningKinds)} :
          \E cleaned \in (IF v.type = "string" THEN CleanedOf(v.text) ELSE {<<>>}) :
            VerifyCall(v, cleaned, kinds)
     /\ UNCHANGED <<execVars, fixerVars, dbVars, dialogVars>>
  \/ /\ \E missing \in 0..MaxMissingTables : ContextResolves(missing)
     /\ UNCHANGED <<execVars, fixerVars, dbVars, dialogVars>>
  \/ /\ \E err \in ContextErrors : ContextRejects(err)
     /\ UNCHANGED <<execVars, fixerVars, dbVars, dialogVars>>

SpecVerify == InitVerify /\ [][NextVerify]_vars

\* the candidate is not a string, or is the empty string
EmptyOrNonString(v) == IF v.type = "string" THEN v.text = <<>> ELSE TRUE

\* C13: once verifySQLQuery has been called with an empty or non-string
\* candidate, no pass has run, and its promise is fulfilled, not rejected, with
\* isValid false and one error, which carries the message of the validation
\* error of validateAndCleanQuery.
C13_InvalidCandidateFailsFast ==
  verifyPc # "idle" /\ EmptyOrNonString(candidate) =>
    /\ passesRun = <<>>
    /\ verifyPc = "settled"
    /\ verification.state = "fulfilled"
    /\ verification.value.isValid = FALSE
    /\ Len(verification.value.errors) = 1
    /\ Includes(verification.value.errors[1], InvalidSqlQuery.message)

\* verifySQLQuery has settled for the empty string
C13_Witness ==
  /\ verifyPc = "settled"
  /\ candidate = Text(<<>>)
  /\ verification.state = "fulfilled"

---------------------------------------------------------------------------
(* fixSQLServerSyntaxIssues on its own.                                    *)

SyntaxSelects == {Str(<<"SELECT", " ">>), Str(<<"select", " ">>)}

SyntaxDistincts == {<<>>, Str(<<"DISTINCT", " ">>)}

SyntaxTops == {<<>>, Str(<<"TOP", " ", "5", " ">>), Str(<<"top", " ", "10", " ">>)}

SyntaxOrders == {<<>>, Str(<<" ", "ORDER", " ", "BY", " ", "OrderID">>)}

SyntaxOffsets ==
  {<<>>,
   Str(<<" ", "OFFSET", " ", "0", " ", "ROWS", " ", "FETCH", " ", "NEXT", " ", "5", " ", "ROWS",
         " ", "ONLY">>),
   Str(<<" ", "OFFSET", " ", "10", " ", "ROWS", " ", "FETCH", " ", "FIRST", " ", "5", " ",
         "ROWS", " ", "ONLY">>)}

\* where the subquery stands: as a derived table, or in a condition
SyntaxFrames ==
  {[before |-> Str(<<"SELECT", " ", "*", " ", "FROM", " ">>),
    after |-> Str(<<" ", "AS", " ", "t">>)],
   [before |-> Str(<<"SELECT", " ", "Name", " ", "FROM", " ", "Users", " ", "WHERE", " ", "ID",
                     " ", "IN", " ">>),
    after |-> <<>>]}

SyntaxParts ==
  [frame : SyntaxFrames, select : SyntaxSelects, distinct : SyntaxDistincts, top : SyntaxTops,
   order : SyntaxOrders, offset : SyntaxOffsets]

\* the subquery made of the parts, in its parentheses
SyntaxSubquery(p) ==
  <<"(">> \o p.select \o p.distinct \o p.top \o Str(<<"OrderID", " ", "FROM", " ", "Orders">>)
  \o p.order \o p.offset \o <<")">>

SyntaxQuery(p) == p.frame.before \o SyntaxSubquery(p) \o p.frame.after

SyntaxInputs == {SyntaxQuery(p) : p \in SyntaxParts}

InitSyntax ==
  /\ ExecutorIdle
  /\ ServicesIdle
  /\ input \in SyntaxInputs
  /\ output = <<>>
  /\ stage = "in"

FixSyntax ==
  /\ stage = "in"
  /\ output' = fixSQLServerSyntaxIssues(input)
  /\ stage' = "out"
  /\ UNCHANGED <<input>>
  /\ UNCHANGED execVars
  /\ UNCHANGED serviceVars

NextSyntax == FixSyntax

SpecSyntax == InitSyntax /\ [][NextSyntax]_vars

\* the parts whose subquery has both SELECT [DISTINCT] TOP n and OFFSET m ROWS FETCH
TopAndOffsetParts == {p \in SyntaxParts : p.top # <<>> /\ p.offset # <<>>}

\* /\bDISTINCT\b/i
DistinctWordPattern == <<Bnd>> \o ILit(Str(<<"DISTINCT">>)) \o <<Bnd>>

\* the subquery is rewritten by the loss of its TOP n and by nothing else that
\* the claim speaks of: OFFSET ... FETCH is there, and DISTINCT is there when
\* and only when it was
OnlyTopDropped(before, after) ==
  /\ ~Test(TopCountPattern, after)
  /\ Test(OffsetFetchStartPattern, after)
  /\ Test(DistinctWordPattern, after) <=> Test(DistinctWordPattern, before)

\* C19: for a subquery in parentheses that has both SELECT [DISTINCT] TOP n
\* and OFFSET m ROWS FETCH, fixSQLServerSyntaxIssues gives a query with one
\* subquery, which has no TOP n, has its OFFSET ... FETCH, and has DISTINCT
\* when and only when the subquery had it.
C19_OnlyTopDropped ==
  \A p \in TopAndOffsetParts :
    stage = "out" /\ input = SyntaxQuery(p) =>
      /\ Len(findSubqueries(output)) = 1
      /\ OnlyTopDropped(SyntaxSubquery(p), findSubqueries(output)[1])

---------------------------------------------------------------------------
(* fixMalformedJoins: the end of its loop.                                 *)

\* how many iterations of the loop the inputs are allowed
MaxJoinPasses == 3

\* the query after k iterations of the loop
RECURSIVE JoinPasses(_, _)
JoinPasses(query, k) == IF k = 0 THEN query ELSE JoinPass(JoinPasses(query, k - 1))

\* C20: fixMalformedJoins returns for every input, after no more than
\* MaxJoinPasses changing iterations of its loop, and what it returns for an
\* input that is not empty is a text that one more iteration of the loop
\* leaves as it is: the first such text among the results of the iterations.
C20_JoinLoopEndsAtFixedPoint ==
  stage = "out" /\ input # <<>> =>
    /\ JoinPass(output) = output
    /\ \E k \in 0..MaxJoinPasses :
         /\ output = JoinPasses(PreLoopRewrites(input), k)
         /\ \A j \in 0..(k - 1) :
              JoinPasses(PreLoopRewrites(input), j + 1) # JoinPasses(PreLoopRewrites(input), j)

\* the loop has run two iterations that changed the query and a third that
\* did not
C20_Witness ==
  /\ stage = "out"
  /\ input = ChainedJoin
  /\ JoinPasses(input, 1) # input
  /\ JoinPasses(input, 2) # JoinPasses(input, 1)
  /\ output = JoinPasses(input, 2)

---------------------------------------------------------------------------
(* executeSql: the autoFixGroupBy option.                                  *)

\* appConfig.sql.autoFixGroupBy with no SQL_AUTO_FIX_GROUP_BY in the environment
DefaultAutoFixGroupBy == TRUE

\* opts.autoFixGroupBy of { autoFixGroupBy: appConfig.sql.autoFixGroupBy, ...options }
AutoFixGroupByOf(options) ==
  IF "autoFixGroupBy" \in DOMAIN options THEN options.autoFixGroupBy
  ELSE DefaultAutoFixGroupBy

\* the options objects of callers that set autoFixGroupBy or leave it out
AutoFixOptions ==
  {[maxRetries |-> n] : n \in 1..MaxRetriesBound}
  \cup {[maxRetries |-> n, autoFixGroupBy |-> b] : n \in 1..MaxRetriesBound, b \in BOOLEAN}

\* the queries of those callers
AutoFixQueries == {QueryMixed, QueryBackticks}

NextAutoFix ==
  \/ \E q \in AutoFixQueries, o \in AutoFixOptions : Call(q, o)
  \/ QuerySucceeds
  \/ \E rej \in Rejections : QueryFails(rej)

SpecAutoFix == Init /\ [][NextAutoFix]_vars

\* the text has a GROUP BY clause
HasGroupByClause(query) == Test(GroupByWords, query)

\* the repair at position k of the history gave the query a GROUP BY clause
GroupByClauseAddedAt(k) ==
  /\ history[k].kind = "fix"
  /\ ~HasGroupByClause(history[k].before)
  /\ HasGroupByClause(history[k].after)

\* C21: in a call made with autoFixGroupBy = false no repair gives the
\* query a GROUP BY clause it did not have.
C21_AutoFixOffAddsNoGroupBy ==
  (Len(history) > 0 /\ ~AutoFixGroupByOf(history[1].options)) =>
    \A k \in DOMAIN history : ~GroupByClauseAddedAt(k)

---------------------------------------------------------------------------
(* export-dialog.component.ts: ExportDialogComponent.                      *)

\* the largest number of startExport calls on one dialog
MaxExports == 2

\* /\.(xlsx|csv)$/i
ExtensionPattern ==
  <<Ch({"."}), Grp(1, <<Alt(<<ILit(Str(<<"xlsx">>)), ILit(Str(<<"csv">>))>>)>>), Eol>>

\* this.selectedFormat === 'excel' ? '.xlsx' : '.csv'
ExtensionOf(format) == IF format = "excel" THEN Str(<<".xlsx">>) ELSE Str(<<".csv">>)

\* finalFilename of startExport; the empty text stands for undefined in the request
FinalFilename(filename, format) ==
  IF filename = <<>> THEN <<>>
  ELSE ReplaceFirstBy(ExtensionPattern, filename, <<>>) \o ExtensionOf(format)

\* the ExportRequest that startExport builds
ExportRequestOf(d, query) ==
  [query |-> query, format |-> d.selectedFormat,
   filename |-> FinalFilename(d.filename, d.selectedFormat)]

\* the text the user has put into the filename field
Filenames == {<<>>, Str(<<"report">>), Str(<<"report", ".CSV">>), Str(<<"a", ".csv", ".xlsx">>)}

\* the formats of the radio group
Formats == {"excel", "csv"}

\* data.query of the dialog
DialogQueries == {QueryPlain}

\* the ExportResponse values the server answers with
ExportResponses ==
  {[success |-> TRUE, recordCount |-> 100, filename |-> Str(<<"report", ".xlsx">>)],
   [success |-> TRUE, recordCount |-> 0, filename |-> Str(<<"report", ".csv">>)],
   [success |-> FALSE, error |-> "Query failed"],
   [success |-> FALSE, error |-> ""],
   [success |-> FALSE]}

\* what the observable of requestExport fails with
ExportErrors == {[message |-> "Server Error: 500 - undefined"], [message |-> ""], [status |-> 0]}

\* response.error || 'Export failed'
ResponseError(response) ==
  IF "error" \in DOMAIN response /\ response.error # "" THEN response.error
  ELSE "Export failed"

\* error.message || 'Export failed'
ErrorMessage(err) ==
  IF "message" \in DOMAIN err /\ err.message # "" THEN err.message ELSE "Export failed"

\* the first statements of startExport, up to the subscription
Exporting(d) == [d EXCEPT !.isExporting = TRUE, !.exportError = "", !.exportStatus = "Exporting data..."]

\* the next callback without its first statement
OnNextStillExporting(d, response) ==
  IF response.success
  THEN [d EXCEPT !.exportComplete = TRUE, !.exportResult = response, !.exportStatus = ""]
  ELSE [d EXCEPT !.exportError = ResponseError(response), !.exportStatus = ""]

\* next: (response: ExportResponse) => { ... }
OnNext(d, response) ==
  IF response.success
  THEN [d EXCEPT !.isExporting = FALSE, !.exportComplete = TRUE, !.exportResult = response,
                 !.exportStatus = ""]
  ELSE [d EXCEPT !.isExporting = FALSE, !.exportError = ResponseError(response),
                 !.exportStatus = ""]

\* error: (error: any) => { ... }
OnError(d, err) ==
  [d EXCEPT !.isExporting = FALSE, !.exportError = ErrorMessage(err), !.exportStatus = ""]

\* the dialog as the user sees it once ngOnInit has run and the form is filled in
InitDialog ==
  /\ ExecutorIdle
  /\ FixerIdle
  /\ DatabaseIdle
  /\ VerifyIdle
  /\ dialog \in {[NewDialog EXCEPT !.filename = f, !.selectedFormat = fmt] :
                   f \in Filenames, fmt \in Formats}
  /\ requests = <<>>

\* startExport(): the fields are set and the observable of requestExport is subscribed to
startExport(query) ==
  /\ Len(requests) < MaxExports
  /\ dialog' = Exporting(dialog)
  /\ requests' = Append(requests, [request |-> ExportRequestOf(dialog, query),
                                   answered |-> FALSE, answer |-> Null])

\* the observable of request i emits its response
ExportNext(i, response) ==
  /\ ~requests[i].answered
  /\ dialog' = OnNext(dialog, response)
  /\ requests' = [requests EXCEPT ![i] = [@ EXCEPT !.answered = TRUE,
                                                    !.answer = [next |-> response]]]

\* the observable of request i fails
ExportError(i, err) ==
  /\ ~requests[i].answered
  /\ dialog' = OnError(dialog, err)
  /\ requests' = [requests EXCEPT ![i] = [@ EXCEPT !.answered = TRUE,
                                                    !.answer = [error |-> err]]]

NextDialog ==
  \/ /\ \E q \in DialogQueries : startExport(q)
     /\ UNCHANGED <<execVars, fixerVars, dbVars, verifyVars>>
  \/ /\ \E i \in 1..Len(requests), response \in ExportResponses : ExportNext(i, response)
     /\ UNCHANGED <<execVars, fixerVars, dbVars, verifyVars>>
  \/ /\ \E i \in 1..Len(requests), err \in ExportErrors : ExportError(i, err)
     /\ UNCHANGED <<execVars, fixerVars, dbVars, verifyVars>>

SpecDialog == InitDialog /\ [][NextDialog]_vars

\* the answer of an export request is a response with success = true
IsSuccess(answer) == "next" \in DOMAIN answer /\ answer.next.success

\* request i is answered in this step
AnsweredNow(i) == ~requests[i].answered /\ requests'[i].answered

\* startExport is called in this step
StartedNow == Len(requests') = Len(requests) + 1

\* C22: startExport sets isExporting; every answer of an export request sets
\* it back to false; a response with success = true sets exportComplete and
\* makes exportResult the response; a response with success = false and an
\* error leave exportComplete as it was, so that exportComplete is true only
\* after a response with success = true.
C22_StartExportSettlesIsExporting ==
  [][/\ StartedNow => dialog'.isExporting
     /\ \A i \in 1..Len(requests) :
          AnsweredNow(i) =>
            /\ ~dialog'.isExporting
            /\ IF IsSuccess(requests'[i].answer)
               THEN /\ dialog'.exportComplete
                    /\ dialog'.exportResult = requests'[i].answer.next
               ELSE dialog'.exportComplete = dialog.exportComplete
     /\ dialog'.exportComplete =>
          \E i \in 1..Len(requests') : requests'[i].answered /\ IsSuccess(requests'[i].answer)]_vars

\* one export has failed with a response and a second one has succeeded
C22_Witness ==
  /\ Len(requests) = 2
  /\ requests[1].answered /\ "next" \in DOMAIN requests[1].answer
  /\ ~requests[1].answer.next.success
  /\ requests[2].answered /\ IsSuccess(requests[2].answer)
  /\ ~dialog.isExporting
  /\ dialog.exportComplete
  /\ dialog.exportResult = requests[2].answer.next

---------------------------------------------------------------------------
(* executeSql: repairs that change nothing.                                *)

\* the repair at position k of the history returned its argument
UnchangedRepairAt(k) ==
  history[k].kind = "fix" /\ history[k].after = history[k].before

\* C23: after a repair that returns the query unchanged executeSql makes no
\* further attempt.
C23_LoopStopsAtFixedPoint ==
  \A k \in DOMAIN history :
    UnchangedRepairAt(k) => ~(k + 1 <= Len(history) /\ history[k + 1].kind = "exec")

---------------------------------------------------------------------------
(* sqlQueryFixer.ts: cleanSQLQuery.                                        *)

CodeFence == <<Backtick, Backtick, Backtick>>

\* "?'?sql'?"?
QuotedSqlWord ==
  <<Opt(<<Ch({"\""})>>), Opt(<<Ch({"'"})>>)>> \o ILit(Str(<<"sql">>))
  \o <<Opt(<<Ch({"'"})>>), Opt(<<Ch({"\""})>>)>>

\* /```\s*(?:"?'?sql'?"?)?\s*|\s*```/gi
FencePattern ==
  <<Alt(<<Lit(CodeFence) \o <<Ws0, Opt(QuotedSqlWord), Ws0>>, <<Ws0>> \o Lit(CodeFence)>>)>>

\* /^(?:"?'?sql'?"?\s*:?\s*)/i
LeadingSqlPattern == <<Bol>> \o QuotedSqlWord \o <<Ws0, Opt(<<Ch({":"})>>), Ws0>>

\* /\\n/g
WrittenNewlinePattern == Lit(<<"\\", "n">>)

\* the first statement of cleanSQLQuery: the four replace calls and trim
Unfenced(sqlQuery) ==
  Trim(ReplaceAllBy(WrittenNewlinePattern,
         SelectSeq(ReplaceFirstBy(LeadingSqlPattern,
                                  ReplaceAllBy(FencePattern, sqlQuery, <<>>), <<>>),
                   LAMBDA ch : ch # Backtick),
         <<"\n">>))

\* /SQL Query:\s*(SELECT[\s\S]*?)(?=\n\s*Expected Output:|$)/i
SqlQueryLabelPattern ==
  ILit(Str(<<"SQL", " ", "Query", ":">>))
  \o <<Ws0, Grp(1, ILit(Str(<<"SELECT">>)) \o <<LazyStar(<<AnyCh>>)>>),
       Ahead(<<Alt(<<<<Ch({"\n"}), Ws0>> \o ILit(Str(<<"Expected", " ", "Output", ":">>)),
                     <<Eol>>>>)>>)>>

\* result.endsWith(';') ? result : result + ';'
WithSemicolon(result) == IF EndsWith(result, <<";">>) THEN result ELSE result \o <<";">>

\* /\b(SELECT|INSERT|UPDATE|DELETE|WITH|FROM|WHERE|JOIN|GROUP|ORDER|HAVING|UNION|EXCEPT|INTERSECT)\b/i
SqlKeywordPattern ==
  <<Bnd,
    Grp(1, <<Alt(<<ILit(Str(<<"SELECT">>)), ILit(Str(<<"INSERT">>)), ILit(Str(<<"UPDATE">>)),
                  ILit(Str(<<"DELETE">>)), ILit(Str(<<"WITH">>)), ILit(Str(<<"FROM">>)),
                  ILit(Str(<<"WHERE">>)), ILit(Str(<<"JOIN">>)), ILit(Str(<<"GROUP">>)),
                  ILit(Str(<<"ORDER">>)), ILit(Str(<<"HAVING">>)), ILit(Str(<<"UNION">>)),
                  ILit(Str(<<"EXCEPT">>)), ILit(Str(<<"INTERSECT">>))>>)>>),
    Bnd>>

\* s.startsWith(t)
StartsWith(s, t) == Len(s) >= Len(t) /\ SubSeq(s, 1, Len(t)) = t

\* one round of the loop over the lines, for the line raw whose trimmed text is line
SqlLinesStep(st, raw, line, isSelectLine) ==
  IF Len(line) = 0 /\ Len(st.sqlLines) = 0 THEN st
  ELSE [sqlLines |->
          IF \/ StartsWith(line, <<"-", "-">>)
             \/ Test(SqlKeywordPattern, line)
             \/ ((st.foundSelect \/ isSelectLine) /\ Len(line) > 0)
             \/ (Len(st.sqlLines) > 0 /\ Len(line) > 0)
          THEN Append(st.sqlLines, raw)
          ELSE st.sqlLines,
        foundSelect |-> st.foundSelect \/ isSelectLine]

\* line.toUpperCase().includes('SELECT') || line.toUpperCase().startsWith('SELECT')
IsSelectLine(line) == Includes(ToUpper(line), Str(<<"SELECT">>))

\* the loop over the lines
SqlLinesOf(lines) ==
  LET f[i \in 0..Len(lines)] ==
        IF i = 0 THEN [sqlLines |-> <<>>, foundSelect |-> FALSE]
        ELSE SqlLinesStep(f[i - 1], lines[i], Trim(lines[i]), IsSelectLine(Trim(lines[i])))
  IN f[Len(lines)]

\* /[ \t]+/g
BlanksPattern == <<Plus(<<Ch({" ", "\t"})>>)>>

\* /\n\s*\n/g
EmptyLinePattern == <<Ch({"\n"}), Ws0, Ch({"\n"})>>

\* the lines that were kept, joined, trimmed and squeezed, with a semicolon at the end
DetectedSql(sqlLines) ==
  WithSemicolon(ReplaceAllBy(EmptyLinePattern,
                             ReplaceAllBy(BlanksPattern, Trim(Join(sqlLines, <<"\n">>)), <<" ">>),
                             <<"\n">>))

\* the end of cleanSQLQuery, from the loop over the lines on
CleanByLines(found) ==
  IF Len(found.sqlLines) > 0 /\ found.foundSelect THEN DetectedSql(found.sqlLines) ELSE <<>>

\* cleanSQLQuery from the match of 'SQL Query:' on
CleanWith(cleaned, sqlQueryMatch) ==
  IF sqlQueryMatch.ok THEN WithSemicolon(Trim(Cap(cleaned, sqlQueryMatch, 1)))
  ELSE CleanByLines(SqlLinesOf(Split(cleaned, "\n")))

CleanUnfenced(cleaned) == CleanWith(cleaned, Exec(SqlQueryLabelPattern, cleaned))

cleanSQLQuery(sqlQuery) == IF Len(sqlQuery) = 0 THEN <<>> ELSE CleanUnfenced(Unfenced(sqlQuery))

---------------------------------------------------------------------------
(* sqlQueryFixer.ts: fixAggregateCalculations, fixWindowFunctionGroupBy    *)
(* and validateAndCleanQuery.                                              *)

\* fixAggregateCalculations logs a warning and returns its argument
fixAggregateCalculations(query) == query

\* \([^)]+\)
ParenthesizedPattern == <<Ch({"("}), Plus(<<NCh({")"})>>), Ch({")"})>>

\* /PERCENTILE_CONT\s*\([^)]+\)\s*WITHIN\s+GROUP\s*\(\s*ORDER\s+BY[^)]+\)\s*OVER\s*\([^)]+\)/gis
percentilePattern ==
  ILit(Str(<<"PERCENTILE_CONT">>)) \o <<Ws0>> \o ParenthesizedPattern \o <<Ws0>>
  \o ILit(Str(<<"WITHIN">>)) \o <<Ws1>> \o ILit(Str(<<"GROUP">>))
  \o <<Ws0, Ch({"("}), Ws0>> \o ILit(Str(<<"ORDER">>)) \o <<Ws1>> \o ILit(Str(<<"BY">>))
  \o <<Plus(<<NCh({")"})>>), Ch({")"}), Ws0>> \o ILit(Str(<<"OVER">>)) \o <<Ws0>>
  \o ParenthesizedPattern

\* the replacement of a matched PERCENTILE_CONT expression
PercentileReplacement ==
  Str(<<"-", "-", " ", "PERCENTILE_CONT", " ", "replaced", " ", "due", " ", "to", " ",
        "GROUP", " ", "BY", " ", "constraints", "\n", " ", " ", " ", " ", "AVG", "(",
        "CAST", "(", "DATEDIFF", "(", "DAY", ",", " ", "SOH", ".", "[", "OrderDate", "]",
        ",", " ", "SOH", ".", "[", "ShipDate", "]", ")", " ", "AS", " ", "FLOAT", ")",
        ")">>)

\* the replacement of a line with PERCENTILE_CONT
PercentileLine ==
  Str(<<" ", "-", "-", " ", "PERCENTILE_CONT", " ", "replaced", " ", "due", " ", "to", " ",
        "GROUP", " ", "BY", " ", "constraints", "\n", " ", " ", " ", " ", "AVG", "(",
        "CAST", "(", "DATEDIFF", "(", "DAY", ",", " ", "SOH", ".", "[", "OrderDate", "]",
        ",", " ", "SOH", ".", "[", "ShipDate", "]", ")", " ", "AS", " ", "FLOAT", ")", ")",
        " ", "AS", " ", "[", "MedianFulfillmentDays", "]", ",">>)

OverClauseRemoved == Str(<<" ", "-", "-", " ", "OVER", " ", "clause", " ", "removed">>)

\* for (const match of matches) cleaned = cleaned.replace(fullMatch, replacement)
RECURSIVE ReplacePercentiles(_, _, _)
ReplacePercentiles(cleaned, fullMatches, k) ==
  IF k > Len(fullMatches) THEN cleaned
  ELSE ReplacePercentiles(ReplaceText(cleaned, fullMatches[k], PercentileReplacement),
                          fullMatches, k + 1)

\* the line has the function and is not a comment
IsPercentileLine(line) ==
  Includes(ToUpper(line), Str(<<"PERCENTILE_CONT">>)) /\ ~StartsWith(line, <<"-", "-">>)

\* lines[i + 1].trim().toUpperCase().startsWith('OVER')
IsOverLine(raw) == StartsWith(ToUpper(Trim(raw)), Str(<<"OVER">>))

\* one round of the loop over the lines
PercentileLinesStep(lines, i) ==
  IF IsPercentileLine(Trim(lines[i]))
  THEN [k \in 1..Len(lines) |->
          IF k = i THEN PercentileLine
          ELSE IF k = i + 1 /\ IsOverLine(lines[k]) THEN OverClauseRemoved
          ELSE lines[k]]
  ELSE lines

\* the loop over the lines
PercentileLines(lines) ==
  LET f[i \in 0..Len(lines)] == IF i = 0 THEN lines ELSE PercentileLinesStep(f[i - 1], i)
  IN f[Len(lines)]

\* fixWindowFunctionGroupBy once the matches of percentilePattern are known
FixWindowWith(cleaned, matches) ==
  IF Len(matches) > 0 THEN ReplacePercentiles(cleaned, WholesOf(cleaned, matches), 1)
  ELSE IF Includes(ToUpper(cleaned), Str(<<"PERCENTILE_CONT">>))
  THEN Join(PercentileLines(Split(cleaned, "\n")), <<"\n">>)
  ELSE cleaned

fixWindowFunctionGroupBy(sqlQuery) ==
  IF Len(sqlQuery) = 0 THEN sqlQuery ELSE FixWindowWith(sqlQuery, All(percentilePattern, sqlQuery))

\* /JOIN\s+(dbo\.)?(\[)([^\]]+)\s+(\w+)\s+ON\s+(\w+)(\])\.(\w+)\s*=\s*(\w+)\.(\w+)/gi
JoinAliasInBracketsPattern ==
  ILit(Str(<<"JOIN">>))
  \o <<Ws1, Opt(<<Grp(1, ILit(Str(<<"dbo">>)) \o <<Ch({"."})>>)>>), Grp(2, <<Ch({"["})>>),
       Grp(3, <<Plus(<<NCh({"]"})>>)>>), Ws1, Grp(4, <<Word1>>), Ws1>>
  \o ILit(Str(<<"ON">>))
  \o <<Ws1, Grp(5, <<Word1>>), Grp(6, <<Ch({"]"})>>), Ch({"."}), Grp(7, <<Word1>>), Ws0,
       Ch({"="}), Ws0, Grp(8, <<Word1>>), Ch({"."}), Grp(9, <<Word1>>)>>

\* `JOIN ${schema || ''}[${table}] ${alias} ON ${otherAlias}.${col1} = ${prefix2}.${col2}`
JoinAliasOutOfBrackets(s, m) ==
  Str(<<"JOIN", " ">>) \o Cap(s, m, 1) \o <<"[">> \o Cap(s, m, 3) \o <<"]", " ">>
  \o Cap(s, m, 4) \o Str(<<" ", "ON", " ">>) \o Cap(s, m, 5) \o <<".">> \o Cap(s, m, 7)
  \o <<" ", "=", " ">> \o Cap(s, m, 8) \o <<".">> \o Cap(s, m, 9)

\* the matches of a pattern replaced by what JoinAliasOutOfBrackets makes of each
JoinAliasesOutOfBrackets(s, ms) ==
  IF Len(ms) = 0 THEN s
  ELSE Splice(s, ms, [k \in 1..Len(ms) |-> JoinAliasOutOfBrackets(s, ms[k])])

\* /```[^`]*```/g
CodeBlockPattern == Lit(CodeFence) \o <<Star(<<NCh({Backtick})>>)>> \o Lit(CodeFence)

\* the last statement of validateAndCleanQuery: the backticks and the code
\* blocks are removed and the text is trimmed
Sanitized(cleaned) ==
  Trim(ReplaceAllBy(CodeBlockPattern, SelectSeq(cleaned, LAMBDA ch : ch # Backtick), <<>>))

\* cleaned.replace(/JOIN\s+(dbo\.)?(\[).../gi, (match, ...) => ...)
JoinAliasFix(cleaned) ==
  JoinAliasesOutOfBrackets(cleaned, All(JoinAliasInBracketsPattern, cleaned))

\* validateAndCleanQuery from fixTopWithTiesAndOffset on
CleanAfterJoins(cleaned) ==
  Sanitized(fixWindowFunctionGroupBy(fixOrderByBeforeUnion(
    JoinAliasFix(fixAggregateCalculations(fixTopWithTiesAndOffset(cleaned))))))

\* validateAndCleanQuery for a string that is not empty: cleaned is what
\* cleanSQLQuery returns, joined is what fixMalformedJoins makes of it
validateAndCleanQuery(sqlQuery) ==
  CHOOSE result \in {CleanAfterJoins(joined) :
                       joined \in {fixMalformedJoins(cleaned) :
                                     cleaned \in {cleanSQLQuery(sqlQuery)}}} : TRUE

---------------------------------------------------------------------------
(* sqlServerSyntaxFixer.ts: validateAndFixSQLQuery; aiService.ts: the      *)
(* three stages of verifySQLQuery over the text.                           *)

\* /SELECT\s+(?!TOP)(?!.*OFFSET)(?!.*FOR\s+XML).+?FROM.+?ORDER\s+BY/is
OrderByWithoutTopPattern ==
  ILit(Str(<<"SELECT">>))
  \o <<Ws1, NotAhead(ILit(Str(<<"TOP">>))),
       NotAhead(<<Star(<<AnyCh>>)>> \o ILit(Str(<<"OFFSET">>))),
       NotAhead(<<Star(<<AnyCh>>)>> \o ILit(Str(<<"FOR">>)) \o <<Ws1>> \o ILit(Str(<<"XML">>))),
       LazyPlus(<<AnyCh>>)>>
  \o ILit(Str(<<"FROM">>)) \o <<LazyPlus(<<AnyCh>>)>>
  \o ILit(Str(<<"ORDER">>)) \o <<Ws1>> \o ILit(Str(<<"BY">>))

\* /FETCH\s+(?!NEXT\s+\d+\s+ROWS\s+ONLY)/i
IncorrectFetchPattern ==
  ILit(Str(<<"FETCH">>))
  \o <<Ws1, NotAhead(ILit(Str(<<"NEXT">>)) \o <<Ws1, Digits1, Ws1>> \o ILit(Str(<<"ROWS">>))
                     \o <<Ws1>> \o ILit(Str(<<"ONLY">>)))>>

\* the warnings of validateAndFixSQLQuery, in the order of their pushes
SyntaxWarnings(sqlQuery) ==
  (IF Test(OrderByWithoutTopPattern, sqlQuery)
   THEN <<"ORDER BY in subquery without TOP, OFFSET or FOR XML was fixed">> ELSE <<>>)
  \o (IF Test(IncorrectFetchPattern, sqlQuery)
      THEN <<"Incorrect FETCH syntax was fixed">> ELSE <<>>)

validateAndFixSQLQuery(sqlQuery) ==
  IF Len(sqlQuery) = 0 \/ Len(Trim(sqlQuery)) = 0
  THEN [isValid |-> FALSE, fixedQuery |-> sqlQuery, warnings |-> <<"Empty SQL query">>]
  ELSE [isValid |-> TRUE, fixedQuery |-> fixSQLServerSyntaxIssues(sqlQuery),
        warnings |-> SyntaxWarnings(sqlQuery)]

\* verifySQLQuery from validateAndFixDerivedTableIssues on: the texts of the stages
StagesAfterSyntax(cleaned, syntaxFixResult, scopeFixResult) ==
  [cleaned |-> cleaned, syntaxFixed |-> syntaxFixResult.fixedQuery,
   fixedQuery |-> scopeFixResult.fixedQuery,
   warnings |-> syntaxFixResult.warnings \o scopeFixResult.warnings]

\* verifySQLQuery from validateAndFixSQLQuery on
StagesAfterCleaning(cleaned, syntaxFixResult) ==
  StagesAfterSyntax(cleaned, syntaxFixResult,
                    validateAndFixDerivedTableIssues(syntaxFixResult.fixedQuery))

\* verifySQLQuery once validateAndCleanQuery has returned
StagesWith(cleaned) ==
  IF Len(cleaned) = 0 \/ Len(Trim(cleaned)) = 0
  THEN [cleaned |-> cleaned, syntaxFixed |-> <<>>, fixedQuery |-> <<>>, warnings |-> <<>>]
  ELSE StagesAfterCleaning(cleaned, validateAndFixSQLQuery(cleaned))

\* the texts that the stages of verifySQLQuery make of a string that is not empty
VerifyStages(sqlQuery) ==
  CHOOSE stages \in {StagesWith(cleaned) : cleaned \in {validateAndCleanQuery(sqlQuery)}} : TRUE

\* the candidates of the stages: queries with and without TOP and paging, as
\* the model returns them and inside a code fence
StageInputs ==
  TopInputs
  \cup {CodeFence \o Str(<<"sql", "\n">>) \o q \o <<"\n">> \o CodeFence :
          q \in {h \o b \o tl : h \in TopHeads, b \in TopBodies, tl \in OffsetTails}}

InitStages ==
  /\ ExecutorIdle
  /\ ServicesIdle
  /\ input \in StageInputs
  /\ output = <<>>
  /\ stage = "in"

\* the three stages of verifySQLQuery over the text of the candidate
RunStages ==
  /\ stage = "in"
  /\ output' = VerifyStages(input)
  /\ stage' = "out"
  /\ UNCHANGED <<input>>
  /\ UNCHANGED execVars
  /\ UNCHANGED serviceVars

NextStages == RunStages

SpecStages == InitStages /\ [][NextStages]_vars

\* the SELECT the text starts with has an active TOP n
StartsWithTopPattern ==
  <<Bol, Ws0>> \o ILit(Str(<<"SELECT">>)) \o <<Ws1>> \o ILit(Str(<<"TOP">>)) \o <<Ws1, Digits1>>

\* the paging clause of a text whose OFFSET word is at match
PagingFrom(text, match) == Trim(Sub(text, match.b, Len(text) + 1))

\* the first SELECT of the candidate has TOP n and the candidate has OFFSET ... FETCH
TopWithPaging(text) ==
  /\ Test(StartsWithTopPattern \o <<LazyStar(<<AnyCh>>)>> \o OffsetFetchStartPattern, text)

\* C24: of a candidate whose first SELECT has TOP n and an OFFSET ... FETCH
\* clause, the fixedQuery that the stages return has no TOP in that SELECT and
\* still has the paging clause.
C24_DroppedTopStaysDropped ==
  (stage = "out" /\ TopWithPaging(input)) =>
    /\ ~Test(StartsWithTopPattern, output.fixedQuery)
    /\ Includes(output.fixedQuery, PagingFrom(input, Exec(OffsetFetchStartPattern, input)))

---------------------------------------------------------------------------
(* dynamicSqlExecutor.ts: parseSelectColumns on its own.                   *)

\* the longest SELECT list
MaxListLen == 5

\* the characters of the SELECT lists: the parentheses, the comma, a letter, a blank
ListAlphabet == {"(", ")", ",", "a", " "}

ListInputs == UNION {[1..n -> ListAlphabet] : n \in 0..MaxListLen}

InitColumns ==
  /\ ExecutorIdle
  /\ ServicesIdle
  /\ input \in ListInputs
  /\ output = <<>>
  /\ stage = "in"

ParseColumns ==
  /\ stage = "in"
  /\ output' = parseSelectColumns(input)
  /\ stage' = "out"
  /\ UNCHANGED <<input>>
  /\ UNCHANGED execVars
  /\ UNCHANGED serviceVars

NextColumns == ParseColumns

SpecColumns == InitColumns /\ [][NextColumns]_vars

\* the parenthesis depth of the scan when it reads position k
RunningDepth(s, k) == CountUpTo(s, k - 1, "(") - CountUpTo(s, k - 1, ")")

\* the commas read at depth 0
TopLevelCommas(s) == {k \in 1..Len(s) : s[k] = "," /\ RunningDepth(s, k) = 0}

\* the i-th of the positions ks, counted from the left; for 0 the position
\* before the text and past the last one the position after the text
PositionAt(s, ks, i) ==
  IF i = 0 THEN 0
  ELSE IF i > Cardinality(ks) THEN Len(s) + 1
  ELSE CHOOSE k \in ks : Cardinality({j \in ks : j <= k}) = i

\* the text between the commas i - 1 and i of ks, trimmed
SegmentAt(s, ks, i) == Trim(SubSeq(s, PositionAt(s, ks, i - 1) + 1, PositionAt(s, ks, i) - 1))

\* the segments between the commas ks that are not blank, in order
SegmentsBetween(s, ks) ==
  SelectSeq([i \in 1..(Cardinality(ks) + 1) |-> SegmentAt(s, ks, i)], LAMBDA g : Len(g) > 0)

\* one parsed column for each of the segments
ColumnsOf(segments) == [i \in 1..Len(segments) |-> parseColumn(segments[i])]

\* C25: the columns of parseSelectColumns are the non-blank segments between
\* the commas read at parenthesis depth 0, one column each, in the order of
\* the list; a comma read at another depth separates nothing.
C25_SplitAtDepthZeroCommas ==
  stage = "out" => output = ColumnsOf(SegmentsBetween(input, TopLevelCommas(input)))

\* a list with a comma inside parentheses and a comma at depth 0, of two columns
C25_Witness ==
  /\ stage = "out"
  /\ \E k \in 1..Len(input) : input[k] = "," /\ RunningDepth(input, k) > 0
  /\ TopLevelCommas(input) # {}
  /\ Len(output) = 2
  /\ output[1].expression = <<"(", ",", ")">>

---------------------------------------------------------------------------
(* executeSql: repeated repairs of one query.                              *)

\* a query with a qualified table name
QueryQualified == Str(<<"SELECT", " ", "id", " ", "FROM", " ", "dbo", ".", "Orders">>)

RepairQueries == {QueryQualified, QueryBackticks}

\* the options of callers that allow a second and a third attempt
RepairOptions == {[maxRetries |-> n] : n \in 2..(MaxRetriesBound + 1)}

NextRepairs ==
  \/ \E q \in RepairQueries, o \in RepairOptions : Call(q, o)
  \/ QuerySucceeds
  \/ \E rej \in Rejections : QueryFails(rej)

SpecRepairs == Init /\ [][NextRepairs]_vars

\* the repair at position k of the history was made by cleanSqlQuery
CleanedAt(k) == history[k].kind = "fix" /\ history[k].fixer = "cleanSqlQuery"

\* C26: cleanSqlQuery returns its own output unchanged: when two attempts in
\* a row fail with a syntax-class message, the second cleanSqlQuery changes
\* nothing, and the third attempt runs the query of the second.
C26_CleanSqlQueryIdempotent ==
  \A k \in DOMAIN history :
    (k > 3 /\ CleanedAt(k) /\ CleanedAt(k - 3)) =>
      /\ history[k].before = history[k - 3].after
      /\ history[k].after = history[k].before
      /\ k + 1 <= Len(history) => history[k + 1].query = history[k - 2].query

---------------------------------------------------------------------------
(* executeSql: the repair after the last attempt.                          *)

\* the repair at position k of the history was followed by an attempt
ExecutedAfter(k) == k + 1 <= Len(history) /\ history[k + 1].kind = "exec"

\* C27: in a call that has settled, every repair was followed by an attempt
\* that ran its result.
C27_EveryRepairIsExecuted ==
  pc = "settled" => \A k \in EventsOf("fix") : ExecutedAfter(k)

---------------------------------------------------------------------------
(* executeSql: what a call with throwOnFailure resolves to.                *)

\* the call resolved to null
ResolvedToNull == outcome = [kind |-> "return", value |-> Null]

\* C28: a settled call with throwOnFailure = true has not resolved to null,
\* whatever maxRetries is: it returned rows or it threw.
C28_ThrowOnFailureNeverNull ==
  pc = "settled" /\ throwOnFailure => ~ResolvedToNull

---------------------------------------------------------------------------
(* fixDerivedTableScopeIssues: the warnings of the outer reference loop.   *)

\* `Fixed table reference: ` as the warnings of line 128 begin
ReferenceWarningStart == Str(<<"Fixed", " ", "table", " ", "reference", ":", " ">>)

\* the warnings that the outer reference loop pushed
ReferenceWarnings(warnings) ==
  {k \in 1..Len(warnings) : StartsWith(warnings[k], ReferenceWarningStart)}

\* C29: when the returned warnings hold a "Fixed table reference: X -> Y"
\* entry, the returned fixedQuery differs from the query that was passed in.
C29_ReferenceWarningMeansRewrite ==
  (stage = "out" /\ output.isValid /\ ReferenceWarnings(output.warnings) # {}) =>
    output.fixedQuery # input

---------------------------------------------------------------------------
(* executeQuery: the text that reaches the driver.                         *)

\* the texts that executeQuery is called with: those of its direct callers, what
\* executeSql is called with, and what its fixers make of them retry after retry
DriverQueries == DatabaseQueries \cup RepairQueries \cup DOMAIN RepairsOf

\* how many calls of executeQuery are made
MaxDriverCalls == 1

\* executeQuery is called and runs to its first await or to its end
CallExecuteQuery ==
  /\ Len(calls) < MaxDriverCalls
  /\ \E q \in DriverQueries : calls' = Append(calls, executeQuery(q))
  /\ UNCHANGED <<dbType, pools, schemaCache, completions>>

NextDriver ==
  \/ /\ CallExecuteQuery
     /\ UNCHANGED <<execVars, fixerVars, verifyVars, dialogVars>>
  \/ /\ \E c \in 1..Len(calls), p \in Connectable : ConnectResolves(c, p)
     /\ UNCHANGED <<execVars, fixerVars, verifyVars, dialogVars>>
  \/ /\ \E c \in 1..Len(calls), err \in ConnectErrors : ConnectRejects(c, err)
     /\ UNCHANGED <<execVars, fixerVars, verifyVars, dialogVars>>
  \/ /\ \E c \in 1..Len(calls), recordset \in RecordSets : QueryResolves(c, recordset)
     /\ UNCHANGED <<execVars, fixerVars, verifyVars, dialogVars>>
  \/ /\ \E c \in 1..Len(calls), err \in RequestErrors : QueryRejects(c, err)
     /\ UNCHANGED <<execVars, fixerVars, verifyVars, dialogVars>>
  \/ /\ \E c \in 1..Len(calls) : CloseResolves(c)
     /\ UNCHANGED <<execVars, fixerVars, verifyVars, dialogVars>>

SpecDriver == InitDatabase /\ [][NextDriver]_vars

\* the calls whose text pool.request().query was called with
HandedToDriver == {c \in 1..Len(calls) : calls[c].pool # 0}

\* C30: the text that a call of executeQuery hands to the driver holds no
\* backtick, whether the call came with a first query of executeSql, with one
\* that a fixer made for a retry, or from another caller.
C30_NoBacktickReachesDriver ==
  \A c \in HandedToDriver : ~Includes(calls[c].query, <<Backtick>>)

\* the driver is running the query of executeSql that came with backticks
C30_Witness ==
  /\ Includes(QueryBackticks, <<Backtick>>)
  /\ \E c \in HandedToDriver :
       /\ calls[c].at = "querying"
       /\ calls[c].query = Str(<<"SELECT", " ", "id", " ", "FROM", " ", "o", ".", "t">>)

====
